---- MODULE Spec2Model ----
(***************************************************************************)
(* promptdepot: the versioned template store (stores/local.py, stores/     *)
(* core.py).  The filesystem under base_path is the shared state; every    *)
(* caller is an independent LocalTemplateStore instance (a process) whose  *)
(* calls are sequences of filesystem steps.                                *)
(*                                                                         *)
(* Strings are sequences of one-character strings, so that str(version),   *)
(* SemanticVersion.parse, the directory-name sort and the text-mode        *)
(* newline translation of read_text are computed, not assumed.             *)
(***************************************************************************)
EXTENDS Integers, Sequences, FiniteSets, TLC

\* ------------------------------------------------------------ characters

Digits == <<"0", "1", "2", "3", "4", "5", "6", "7", "8", "9">>

IsDigit(c) == \E i \in 1..Len(Digits) : Digits[i] = c

DigitVal(c) == (CHOOSE i \in 1..Len(Digits) : Digits[i] = c) - 1

\* The ASCII order of the characters the model uses in names: str ordering in
\* Python compares code points.
Alphabet == <<"+", "-", ".", "0", "1", "2", "3", "4", "5", "6", "7", "8", "9",
              "a", "b", "c", "r", "v">>

Ord(c) == CHOOSE i \in 1..Len(Alphabet) : Alphabet[i] = c

IsAlnumHyphen(c) == c # "." /\ c # "+" /\ \E i \in 1..Len(Alphabet) : Alphabet[i] = c

\* Python's str < str: the first differing code point decides, a proper prefix
\* is smaller.
RECURSIVE StrLess(_, _)
StrLess(s, t) ==
    IF t = <<>> THEN FALSE
    ELSE IF s = <<>> THEN TRUE
    ELSE IF Head(s) # Head(t) THEN Ord(Head(s)) < Ord(Head(t))
    ELSE StrLess(Tail(s), Tail(t))

\* The index of the first c in s, 0 when there is none.
RECURSIVE IndexFrom(_, _, _)
IndexFrom(s, c, i) ==
    IF i > Len(s) THEN 0
    ELSE IF s[i] = c THEN i
    ELSE IndexFrom(s, c, i + 1)

IndexOf(s, c) == IndexFrom(s, c, 1)

\* s.split("."): the list of the parts between dots.
RECURSIVE SplitDot(_)
SplitDot(s) ==
    LET i == IndexOf(s, ".")
    IN  IF i = 0 THEN <<s>>
        ELSE <<SubSeq(s, 1, i - 1)>> \o SplitDot(SubSeq(s, i + 1, Len(s)))

AllDigits(s) == s # <<>> /\ \A i \in 1..Len(s) : IsDigit(s[i])

\* (0|[1-9]\d*)
IsNumericId(s) == AllDigits(s) /\ (Len(s) = 1 \/ s[1] # "0")

RECURSIVE ToNat(_)
ToNat(s) == IF s = <<>> THEN 0 ELSE ToNat(SubSeq(s, 1, Len(s) - 1)) * 10 + DigitVal(s[Len(s)])

RECURSIVE Dec(_)
Dec(n) == IF n < 10 THEN <<Digits[n + 1]>> ELSE Dec(n \div 10) \o <<Digits[(n % 10) + 1]>>

\* --------------------------------------------------------- SemanticVersion

SemVer(ma, mi, pa, pre, bu) ==
    [major |-> ma, minor |-> mi, patch |-> pa, prerelease |-> pre, build |-> bu]

\* str(version): the canonical string form, which names the version directory.
Str(v) ==
    Dec(v.major) \o <<".">> \o Dec(v.minor) \o <<".">> \o Dec(v.patch)
        \o (IF v.prerelease = <<>> THEN <<>> ELSE <<"-">> \o v.prerelease)
        \o (IF v.build = <<>> THEN <<>> ELSE <<"+">> \o v.build)

\* The versions of the model.
V1 == SemVer(1, 0, 0, <<>>, <<>>)
V9 == SemVer(9, 0, 0, <<>>, <<>>)
V9rc == SemVer(9, 0, 0, <<"r", "c">>, <<>>)
V10 == SemVer(10, 0, 0, <<>>, <<>>)
V9b == SemVer(9, 0, 0, <<>>, <<"b">>)

Versions == {V1, V9, V9rc, V9b, V10}

\* A directory name that is no semantic version.
NotSemver == <<"v", "1">>

\* The names that can stand under a template directory.
DirNames == {Str(v) : v \in Versions} \cup {NotSemver}

\* A dot-separated list of identifiers as in a prerelease or a build tag.
IsPreId(s) == s # <<>> /\ (\A i \in 1..Len(s) : IsAlnumHyphen(s[i]))
                /\ (AllDigits(s) => IsNumericId(s))

IsBuildId(s) == s # <<>> /\ \A i \in 1..Len(s) : IsAlnumHyphen(s[i])

AllParts(s, Ok(_)) == LET ps == SplitDot(s) IN \A i \in 1..Len(ps) : Ok(ps[i])

\* SemanticVersion.parse(s): [ok |-> TRUE, v |-> version] or [ok |-> FALSE]
\* (ValueError), computed from the characters of s.
ParseText(s) ==
    LET plus == IndexOf(s, "+")
        head == IF plus = 0 THEN s ELSE SubSeq(s, 1, plus - 1)
        bu   == IF plus = 0 THEN <<>> ELSE SubSeq(s, plus + 1, Len(s))
        dash == IndexOf(head, "-")
        core == IF dash = 0 THEN head ELSE SubSeq(head, 1, dash - 1)
        pre  == IF dash = 0 THEN <<>> ELSE SubSeq(head, dash + 1, Len(head))
        nums == SplitDot(core)
        good == /\ Len(nums) = 3
                /\ \A i \in 1..3 : IsNumericId(nums[i])
                /\ (dash # 0 => AllParts(pre, IsPreId))
                /\ (plus # 0 => AllParts(bu, IsBuildId))
    IN  IF good
        THEN [ok |-> TRUE,
              v |-> SemVer(ToNat(nums[1]), ToNat(nums[2]), ToNat(nums[3]), pre, bu)]
        ELSE [ok |-> FALSE]

\* The parse of the strings the model meets (the names under a template
\* directory and the empty string), computed once.
Parsed == [s \in DirNames \cup {<<>>} |-> ParseText(s)]

Parse(s) == Parsed[s]

\* One prerelease identifier against another: numbers by value, a number
\* below a word, words as strings. -1, 0 or 1.
CmpTag(a, b) ==
    IF AllDigits(a) /\ AllDigits(b)
    THEN (IF ToNat(a) < ToNat(b) THEN -1 ELSE IF ToNat(a) > ToNat(b) THEN 1 ELSE 0)
    ELSE IF AllDigits(a) THEN -1
    ELSE IF AllDigits(b) THEN 1
    ELSE IF StrLess(a, b) THEN -1 ELSE IF StrLess(b, a) THEN 1 ELSE 0

RECURSIVE CmpTags(_, _)
CmpTags(as, bs) ==
    IF as = <<>> \/ bs = <<>> THEN 0
    ELSE IF CmpTag(Head(as), Head(bs)) # 0 THEN CmpTag(Head(as), Head(bs))
    ELSE CmpTags(Tail(as), Tail(bs))

NatCmp(a, b) ==
    LET c == CmpTags(SplitDot(a), SplitDot(b))
    IN  IF c # 0 THEN c
        ELSE IF Len(a) < Len(b) THEN -1 ELSE IF Len(a) > Len(b) THEN 1 ELSE 0

\* Version.compare: major, minor, patch by value; then a release above its
\* prereleases; the build tag takes no part.
Compare(v, w) ==
    IF v.major # w.major THEN (IF v.major < w.major THEN -1 ELSE 1)
    ELSE IF v.minor # w.minor THEN (IF v.minor < w.minor THEN -1 ELSE 1)
    ELSE IF v.patch # w.patch THEN (IF v.patch < w.patch THEN -1 ELSE 1)
    ELSE LET rc == NatCmp(v.prerelease, w.prerelease)
         IN  IF rc = 0 THEN 0
             ELSE IF v.prerelease = <<>> THEN 1
             ELSE IF w.prerelease = <<>> THEN -1
             ELSE rc

\* ------------------------------------------------------------- file text

CR == "CR"
LF == "LF"

\* os.linesep of the platform the store runs on (POSIX).
LineSep == <<LF>>

\* What open(mode="r") hands back for the stored characters s: universal
\* newlines, "\r\n" and a lone "\r" both come back as "\n".
RECURSIVE ReadText(_)
ReadText(s) ==
    IF s = <<>> THEN <<>>
    ELSE IF Head(s) = CR
         THEN IF Len(s) >= 2 /\ s[2] = LF
              THEN <<LF>> \o ReadText(SubSeq(s, 3, Len(s)))
              ELSE <<LF>> \o ReadText(Tail(s))
         ELSE <<Head(s)>> \o ReadText(Tail(s))

\* Mutant of WriteText: line endings are normalised on the way to the file.
RECURSIVE WriteTextStripCR(_)
WriteTextStripCR(s) ==
    IF s = <<>> THEN <<>>
    ELSE (IF Head(s) = CR THEN <<>> ELSE <<Head(s)>>) \o WriteTextStripCR(Tail(s))

\* What open(mode="w") stores for the string s: "\n" becomes os.linesep.
RECURSIVE WriteText(_)
WriteText(s) ==
    IF s = <<>> THEN <<>>
    ELSE (IF Head(s) = LF THEN LineSep ELSE <<Head(s)>>) \o WriteText(Tail(s))

\* A file: absent, or holding text. A content file holds characters; a
\* metadata file is kept as the YAML document its text denotes.
NoFile == [exists |-> FALSE, text |-> <<>>]
TextFile(s) == [exists |-> TRUE, text |-> s]

\* ------------------------------------------------ TemplateVersionMetadata

\* core.py's TemplateVersionMetadata. author and model are optional strings
\* handled exactly as description and are left out.
Metadata(tid, v, at, descr, tags, changelog) ==
    [template_id |-> tid, version |-> v, created_at |-> at,
     description |-> descr, tags |-> tags, changelog |-> changelog]

\* TemplateVersionMetadata(template_id=..., version=...): created_at from
\* datetime.now, the other fields at their defaults.
DefaultMetadata(tid, v) == Metadata(tid, v, "now", "", {}, <<>>)

RECURSIVE SetToList(_)
SetToList(S) ==
    IF S = {} THEN <<>>
    ELSE LET e == CHOOSE e \in S : TRUE IN <<e>> \o SetToList(S \ {e})

ListToSet(l) == {l[i] : i \in 1..Len(l)}

\* metadata.model_dump(mode="json"): the version as its string, the tag set
\* as a list.
ModelDump(m) ==
    [has_template_id |-> TRUE, template_id |-> m.template_id,
     has_version |-> TRUE, version |-> Str(m.version),
     created_at |-> m.created_at, description |-> m.description,
     tags |-> SetToList(m.tags), changelog |-> m.changelog]

\* The document kinds a metadata file can hold: a mapping, the empty
\* document (safe_load gives None), and text that is no YAML at all.
EmptyMap ==
    [has_template_id |-> FALSE, template_id |-> <<>>,
     has_version |-> FALSE, version |-> <<>>,
     created_at |-> "", description |-> "", tags |-> <<>>, changelog |-> <<>>]

NoMeta == [state |-> "absent", map |-> EmptyMap]
NullDoc == [state |-> "null", map |-> EmptyMap]
BadYaml == [state |-> "badyaml", map |-> EmptyMap]
Unreadable == [state |-> "unreadable", map |-> EmptyMap]

\* safe_dump(dict) as the text of a file.
SafeDump(d) == [state |-> "map", map |-> d]

\* TemplateVersionMetadata.model_validate(value): template_id and version are
\* required, the version string must parse.
ModelValidate(doc) ==
    LET none == DefaultMetadata(<<>>, SemVer(0, 0, 0, <<>>, <<>>))
    IN  IF doc.state = "map" /\ doc.map.has_template_id /\ doc.map.has_version
        THEN LET pv == Parse(doc.map.version)
             IN  IF pv.ok
                 THEN [exc |-> "",
                       metadata |-> Metadata(doc.map.template_id, pv.v,
                                             doc.map.created_at, doc.map.description,
                                             ListToSet(doc.map.tags), doc.map.changelog)]
                 ELSE [exc |-> "ValidationError", metadata |-> none]
        ELSE [exc |-> "ValidationError", metadata |-> none]

\* ---------------------------------------------------------------- names

TA == <<"a">>
TB == <<"b">>
TC == <<"c">>

\* The names that can stand under base_path, and the template ids callers use.
RootNames == {TA, TB, TC}
TemplateIds == {TA, TB}

\* PromptVersion = SemanticVersion | str
AsSemver(v) == [kind |-> "semver", v |-> v, s |-> <<>>]
AsStr(s) == [kind |-> "str", v |-> SemVer(0, 0, 0, <<>>, <<>>), s |-> s]

\* str(version) of a PromptVersion: a str is its own string.
StrOf(ver) == IF ver.kind = "str" THEN ver.s ELSE Str(ver.v)

\* An optional argument: None, or a value.
None(dflt) == [none |-> TRUE, val |-> dflt]
Some(x) == [none |-> FALSE, val |-> x]

FROM_PREVIOUS_VERSION == "from_previous_version"
EMPTY == "empty"
WITH_CONTENT == "with_content"

CreationStrategy == {FROM_PREVIOUS_VERSION, EMPTY, WITH_CONTENT}

\* LocalTemplateStore.__init__: the defaults of the configuration.
initial_version == SemVer(1, 0, 0, <<>>, <<>>)

\* ----------------------------------------------------------- filesystem

VARIABLES
    baseDir,    \* base_path exists (as a directory)
    rootEntry,  \* name under base_path -> "absent" | "dir" | "file"
    verEntry,   \* <<template, name>> -> "absent" | "dir" | "file"
    metaFile,   \* <<template, name>> -> the metadata file of that directory
    contFile,   \* <<template, name>> -> the content file of that directory
    fr,         \* process -> the frame of its current or last call
    calls,      \* calls started so far
    completed   \* history: the versions whose create_version has returned

\* A PromptDepotManager over the store, and the objects it shares with its
\* caller and its renderers.
VARIABLES
    heap,                     \* the dict objects, by identity: id -> items
    external_default_config,  \* the dict the caller passed (its id), 0 for None
    manager,                  \* the manager's fields
    storeLog,                 \* history: the store methods the manager asked for
    prompts                   \* history: the get_prompt calls and their outcomes

\* The command-line interface: the command that runs or ran last.
VARIABLES
    cli         \* its arguments, its position, what it called and printed

fsVars == <<baseDir, rootEntry, verEntry, metaFile, contFile>>
mgrVars == <<heap, external_default_config, manager, storeLog, prompts>>
vars == <<baseDir, rootEntry, verEntry, metaFile, contFile, fr, calls, completed, mgrVars, cli>>

Cells == TemplateIds \X DirNames

\* sorted(names): ascending by the name string.
RECURSIVE SortNames(_)
SortNames(S) ==
    IF S = {} THEN <<>>
    ELSE LET m == CHOOSE m \in S : \A o \in S \ {m} : StrLess(m, o)
         IN  <<m>> \o SortNames(S \ {m})

IsTemplateDir(t) == baseDir /\ rootEntry[t] = "dir"

\* Mutant of ReadMetadataFile: a file that cannot be parsed or validated
\* counts as missing.
ReadMetadataFileLenient(f) ==
    LET none == DefaultMetadata(<<>>, SemVer(0, 0, 0, <<>>, <<>>))
    IN  IF f.state = "absent" THEN [exc |-> "TemplateNotFoundError", metadata |-> none]
        ELSE IF f.state = "unreadable" THEN [exc |-> "OSError", metadata |-> none]
        ELSE IF f.state = "badyaml" \/ ModelValidate(f).exc # ""
             THEN [exc |-> "TemplateNotFoundError", metadata |-> none]
        ELSE ModelValidate(f)

\* _read_prompt_metadata(metadata_path), on the file f found at the path
ReadMetadataFile(f) ==
    LET none == DefaultMetadata(<<>>, SemVer(0, 0, 0, <<>>, <<>>))
    IN  IF f.state = "absent" THEN [exc |-> "TemplateNotFoundError", metadata |-> none]
        ELSE IF f.state = "unreadable" THEN [exc |-> "OSError", metadata |-> none]
        ELSE IF f.state = "badyaml" THEN [exc |-> "YAMLError", metadata |-> none]
        ELSE ModelValidate(f)

ReadPromptMetadata(t, n) == ReadMetadataFile(metaFile[<<t, n>>])

TemplateVersion(t, v, m) == [template_id |-> t, version |-> v, metadata |-> m]

NoTemplateVersion == TemplateVersion(<<>>, SemVer(0, 0, 0, <<>>, <<>>),
                                     DefaultMetadata(<<>>, SemVer(0, 0, 0, <<>>, <<>>)))

\* get_template_version(template_id, version) where the metadata files are mf
\* and the content files are cf: [exc, tv]
GetTemplateVersionIn(mf, cf, t, ver) ==
    LET p == IF ver.kind = "str" THEN Parse(ver.s) ELSE [ok |-> TRUE, v |-> ver.v]
    IN  IF ~p.ok THEN [exc |-> "ValueError", tv |-> NoTemplateVersion]
        ELSE LET n == Str(p.v)
                 md == ReadMetadataFile(mf[<<t, n>>])
             IN  IF md.exc # "" THEN [exc |-> md.exc, tv |-> NoTemplateVersion]
                 ELSE IF ~cf[<<t, n>>].exists
                      THEN [exc |-> "TemplateNotFoundError", tv |-> NoTemplateVersion]
                      ELSE [exc |-> "", tv |-> TemplateVersion(t, p.v, md.metadata)]

GetTemplateVersion(t, ver) == GetTemplateVersionIn(metaFile, contFile, t, ver)

\* Mutant of MaxVersion: the last of the list, which is sorted by name.
MaxByName(versions) == versions[Len(versions)]

\* max(versions, key=lambda x: x.version): the first of the greatest.
RECURSIVE MaxFrom(_, _)
MaxFrom(best, rest) ==
    IF rest = <<>> THEN best
    ELSE MaxFrom(IF Compare(Head(rest).version, best.version) > 0 THEN Head(rest) ELSE best,
                 Tail(rest))

MaxVersion(versions) == MaxFrom(Head(versions), Tail(versions))

Template(t, v) == [id |-> t, latest_version |-> v]

\* ---------------------------------------------------------------- frames

Procs == {"p1", "p2"}

IdleFrame ==
    [pc |-> "idle", op |-> "", tid |-> <<>>, ver |-> AsStr(<<>>),
     metadata |-> None(DefaultMetadata(<<>>, SemVer(0, 0, 0, <<>>, <<>>))),
     strategy |-> "", content |-> None(<<>>),
     template_content |-> <<>>, md |-> DefaultMetadata(<<>>, SemVer(0, 0, 0, <<>>, <<>>)),
     entries |-> <<>>, versions |-> <<>>, roots |-> <<>>, templates |-> <<>>,
     latest |-> SemVer(0, 0, 0, <<>>, <<>>),
     exc |-> "", text |-> <<>>, log |-> <<>>, wrote |-> {}]

\* The call returns (exc = "") or raises exc.
Done(f, exc) == [f EXCEPT !.pc = "done", !.exc = exc]

Logged(f, what) == [f EXCEPT !.log = Append(@, what)]

\* list_templates, the end of one turn of its loop (lines 99-118).
LtContinue(f) == IF f.roots = <<>> THEN Done(f, "") ELSE [f EXCEPT !.pc = "lt_loop"]

\* What the caller of get_latest_version does with its outcome: exc, or the
\* latest TemplateVersion.
AfterLatest(f, exc, latest) ==
    CASE f.op = "get_latest_version" ->
            IF exc # "" THEN Done(f, exc) ELSE Done([f EXCEPT !.versions = <<latest>>], "")
      [] f.op = "get_template" ->
            \* lines 70-74
            IF exc # "" THEN Done(f, exc)
            ELSE Done([f EXCEPT !.templates = <<Template(f.tid, latest.version)>>], "")
      [] f.op = "list_templates" ->
            \* lines 105-117
            IF exc = "" THEN LtContinue([f EXCEPT !.templates =
                                            Append(@, Template(f.tid, latest.version))])
            ELSE IF exc = "TemplateNotFoundError"
                 THEN LtContinue(Logged(f, "warning:template"))
            ELSE IF exc \in {"ValidationError", "ValueError", "OSError"}
                 THEN LtContinue(Logged(f, "error:template"))
            ELSE Done(f, exc)
      [] OTHER ->
            \* create_version, lines 173-183
            IF exc = "" THEN [f EXCEPT !.pc = "cv_read", !.latest = latest.version]
            ELSE IF exc = "TemplateNotFoundError"
                 THEN [Logged(f, "warning:no-previous") EXCEPT
                          !.pc = "cv_exists", !.template_content = <<>>]
            ELSE Done(f, exc)

\* What the caller of list_template_versions does with its outcome: exc, or
\* the list in f.versions.
AfterList(f, exc) ==
    IF f.op = "list_template_versions" THEN Done(f, exc)
    ELSE \* get_latest_version, lines 142-148
         IF exc # "" THEN AfterLatest(f, exc, NoTemplateVersion)
         ELSE IF f.versions = <<>> THEN AfterLatest(f, "TemplateNotFoundError", NoTemplateVersion)
         ELSE AfterLatest(f, "", MaxVersion(f.versions))

\* Mutant of ListBegin: the listing in descending order of the names.
ListBeginDescending(f) ==
    IF ~IsTemplateDir(f.tid) THEN AfterList([f EXCEPT !.versions = <<>>], "TemplateNotFoundError")
    ELSE LET up == SortNames({n \in DirNames : verEntry[<<f.tid, n>>] # "absent"})
             es == [i \in 1..Len(up) |-> up[Len(up) + 1 - i]]
             g == [f EXCEPT !.pc = "scan", !.entries = es, !.versions = <<>>]
         IN  IF es = <<>> THEN AfterList(g, "") ELSE g

\* list_template_versions up to its loop (lines 121-126): the directory
\* check and the sorted listing.
ListBegin(f) ==
    IF ~IsTemplateDir(f.tid) THEN AfterList([f EXCEPT !.versions = <<>>], "TemplateNotFoundError")
    ELSE LET es == SortNames({n \in DirNames : verEntry[<<f.tid, n>>] # "absent"})
             g == [f EXCEPT !.pc = "scan", !.entries = es, !.versions = <<>>]
         IN  IF es = <<>> THEN AfterList(g, "") ELSE g

\* list_template_versions, the end of one turn of its loop.
ScanNext(h) == IF h.entries = <<>> THEN AfterList(h, "") ELSE h

\* Mutant of ScanOutcome: ValueError is not among the exceptions caught.
ScanOutcomeNoValueError(g, n, r) ==
    IF verEntry[<<g.tid, n>>] # "dir" THEN ScanNext(g)
    ELSE IF r.exc = "" THEN ScanNext([g EXCEPT !.versions = Append(@, r.tv)])
    ELSE IF r.exc = "TemplateNotFoundError" THEN ScanNext(g)
    ELSE IF r.exc \in {"ValidationError", "OSError"}
         THEN ScanNext(Logged(g, "error:version"))
    ELSE AfterList(g, r.exc)

\* The body of the loop of list_template_versions (lines 127-138) for the
\* child n, where r is the outcome of get_template_version on it and g the
\* frame with n taken off the entries: a child that is no directory is
\* passed over, a version is appended, TemplateNotFoundError is passed over,
\* the caught errors are logged, any other exception leaves the call.
ScanOutcome(g, n, r) ==
    IF verEntry[<<g.tid, n>>] # "dir" THEN ScanNext(g)
    ELSE IF r.exc = "" THEN ScanNext([g EXCEPT !.versions = Append(@, r.tv)])
    ELSE IF r.exc = "TemplateNotFoundError" THEN ScanNext(g)
    ELSE IF r.exc \in {"ValidationError", "ValueError", "OSError"}
         THEN ScanNext(Logged(g, "error:version"))
    ELSE AfterList(g, r.exc)

\* One turn of the loop of list_template_versions (lines 126-138):
\* get_template_version is called once on the first of the entries.
ScanChild(f) ==
    CHOOSE h \in {ScanOutcome([f EXCEPT !.entries = Tail(@)], Head(f.entries), r) :
                    r \in {GetTemplateVersion(f.tid, AsStr(Head(f.entries)))}} : TRUE

\* ------------------------------------------------------------ operations

\* The total number of calls the callers start.
MaxCalls == 2

CanCall(p) == fr[p].pc \in {"idle", "done"} /\ calls < MaxCalls

\* Mutant of CreateBegin: a content argument is used whatever the strategy.
CreateBeginUsesContent(op, t, ver, m, s, c) ==
    LET f0 == [IdleFrame EXCEPT !.op = op, !.tid = t, !.ver = ver, !.metadata = m,
                                !.strategy = s, !.content = c]
        f1 == IF ~c.none /\ s # WITH_CONTENT THEN Logged(f0, "warning:content-ignored") ELSE f0
    IN  IF ~c.none THEN [f1 EXCEPT !.pc = "cv_exists", !.template_content = c.val]
        ELSE IF s = WITH_CONTENT THEN [Logged(f1, "warning:no-content") EXCEPT !.pc = "cv_exists"]
        ELSE IF s = FROM_PREVIOUS_VERSION THEN ListBegin(f1)
        ELSE [f1 EXCEPT !.pc = "cv_exists"]

\* create_version, lines 159-183 up to the first access to the filesystem:
\* the warnings and the content the strategy selects without reading.
CreateBegin(op, t, ver, m, s, c) ==
    LET f0 == [IdleFrame EXCEPT !.op = op, !.tid = t, !.ver = ver, !.metadata = m,
                                !.strategy = s, !.content = c]
        f1 == IF ~c.none /\ s # WITH_CONTENT THEN Logged(f0, "warning:content-ignored") ELSE f0
    IN  IF s = WITH_CONTENT
        THEN IF c.none THEN [Logged(f1, "warning:no-content") EXCEPT !.pc = "cv_exists"]
             ELSE [f1 EXCEPT !.pc = "cv_exists", !.template_content = c.val]
        ELSE IF s = FROM_PREVIOUS_VERSION THEN ListBegin(f1)
        ELSE [f1 EXCEPT !.pc = "cv_exists"]

create_version(p, t, ver, m, s, c) ==
    /\ CanCall(p)
    /\ fr' = [fr EXCEPT ![p] = CreateBegin("create_version", t, ver, m, s, c)]
    /\ calls' = calls + 1
    /\ UNCHANGED <<fsVars, completed, mgrVars, cli>>

\* Mutant of create_template: the strategy is left to create_version's default.
CreateTemplateDefaultStrategy(p, t) ==
    /\ CanCall(p)
    /\ fr' = [fr EXCEPT ![p] = CreateBegin("create_template", t, AsSemver(initial_version),
                                           None(IdleFrame.md), FROM_PREVIOUS_VERSION,
                                           None(<<>>))]
    /\ calls' = calls + 1
    /\ UNCHANGED <<fsVars, completed, mgrVars, cli>>

\* create_template, lines 206-210
create_template(p, t) ==
    /\ CanCall(p)
    /\ fr' = [fr EXCEPT ![p] = CreateBegin("create_template", t, AsSemver(initial_version),
                                           None(IdleFrame.md), EMPTY, None(<<>>))]
    /\ calls' = calls + 1
    /\ UNCHANGED <<fsVars, completed, mgrVars, cli>>

\* create_version, line 178: the content of the latest version is read.
CvReadPrev(p) ==
    /\ fr[p].pc = "cv_read"
    /\ LET f == fr[p]
           file == contFile[<<f.tid, Str(f.latest)>>]
       IN  fr' = [fr EXCEPT ![p] =
                    IF ~file.exists THEN Done(f, "FileNotFoundError")
                    ELSE [f EXCEPT !.pc = "cv_exists", !.template_content = ReadText(file.text)]]
    /\ UNCHANGED <<fsVars, calls, completed, mgrVars, cli>>

\* Mutant of CvExists: no check before the mkdir.
CvExistsNoCheck(p) ==
    /\ fr[p].pc = "cv_exists"
    /\ fr' = [fr EXCEPT ![p] = [fr[p] EXCEPT !.pc = "cv_mkdir"]]
    /\ UNCHANGED <<fsVars, calls, completed, mgrVars, cli>>

\* create_version, lines 184-188: the check that the version is new.
CvExists(p) ==
    /\ fr[p].pc = "cv_exists"
    /\ LET f == fr[p]
       IN  fr' = [fr EXCEPT ![p] =
                    IF baseDir /\ rootEntry[f.tid] = "dir"
                       /\ verEntry[<<f.tid, StrOf(f.ver)>>] # "absent"
                    THEN Done(f, "VersionAlreadyExistsError")
                    ELSE [f EXCEPT !.pc = "cv_mkdir"]]
    /\ UNCHANGED <<fsVars, calls, completed, mgrVars, cli>>

\* Mutant of CvMkdir: mkdir(parents=True, exist_ok=True).
CvMkdirExistOk(p) ==
    /\ fr[p].pc = "cv_mkdir"
    /\ LET f == fr[p]
           cell == <<f.tid, StrOf(f.ver)>>
       IN  IF baseDir /\ rootEntry[f.tid] = "dir"
           THEN /\ verEntry' = [verEntry EXCEPT ![cell] = "dir"]
                /\ fr' = [fr EXCEPT ![p] = [f EXCEPT !.pc = "cv_meta",
                                                     !.wrote = @ \cup {"dir"}]]
           ELSE /\ fr' = [fr EXCEPT ![p] = [f EXCEPT !.pc = "cv_mkparents"]]
                /\ UNCHANGED verEntry
    /\ UNCHANGED <<baseDir, rootEntry, metaFile, contFile, calls, completed, mgrVars, cli>>

\* Mutant of CvMkdir: a mkdir that finds the directory existing does not end
\* the call, which goes back to the existence check and tries again.
CvMkdirRetry(p) ==
    /\ fr[p].pc = "cv_mkdir"
    /\ LET f == fr[p]
           cell == <<f.tid, StrOf(f.ver)>>
       IN  IF baseDir /\ rootEntry[f.tid] = "dir"
           THEN IF verEntry[cell] = "absent"
                THEN /\ verEntry' = [verEntry EXCEPT ![cell] = "dir"]
                     /\ fr' = [fr EXCEPT ![p] = [f EXCEPT !.pc = "cv_meta",
                                                          !.wrote = @ \cup {"dir"}]]
                ELSE /\ fr' = [fr EXCEPT ![p] = [f EXCEPT !.pc = "cv_exists"]]
                     /\ UNCHANGED verEntry
           ELSE IF baseDir /\ rootEntry[f.tid] = "file"
           THEN /\ fr' = [fr EXCEPT ![p] = Done(f, "NotADirectoryError")]
                /\ UNCHANGED verEntry
           ELSE /\ fr' = [fr EXCEPT ![p] = [f EXCEPT !.pc = "cv_mkparents"]]
                /\ UNCHANGED verEntry
    /\ UNCHANGED <<baseDir, rootEntry, metaFile, contFile, calls, completed, mgrVars, cli>>

\* create_version, line 189: version_path.mkdir(parents=True, exist_ok=False),
\* the os.mkdir of the version directory. With the template directory
\* missing it fails and the parents are made first.
CvMkdir(p) ==
    /\ fr[p].pc = "cv_mkdir"
    /\ LET f == fr[p]
           cell == <<f.tid, StrOf(f.ver)>>
       IN  IF baseDir /\ rootEntry[f.tid] = "dir"
           THEN IF verEntry[cell] = "absent"
                THEN /\ verEntry' = [verEntry EXCEPT ![cell] = "dir"]
                     /\ fr' = [fr EXCEPT ![p] = [f EXCEPT !.pc = "cv_meta",
                                                          !.wrote = @ \cup {"dir"}]]
                ELSE /\ fr' = [fr EXCEPT ![p] = Done(f, "FileExistsError")]
                     /\ UNCHANGED verEntry
           ELSE IF baseDir /\ rootEntry[f.tid] = "file"
           THEN /\ fr' = [fr EXCEPT ![p] = Done(f, "NotADirectoryError")]
                /\ UNCHANGED verEntry
           ELSE /\ fr' = [fr EXCEPT ![p] = [f EXCEPT !.pc = "cv_mkparents"]]
                /\ UNCHANGED verEntry
    /\ UNCHANGED <<baseDir, rootEntry, metaFile, contFile, calls, completed, mgrVars, cli>>

\* Mutant of CvMkParents: the parents are made with exist_ok=False, so a
\* parent another caller made in the meantime ends the call.
CvMkParentsNoExistOk(p) ==
    /\ fr[p].pc = "cv_mkparents"
    /\ LET f == fr[p]
       IN  IF baseDir /\ rootEntry[f.tid] # "absent"
           THEN /\ fr' = [fr EXCEPT ![p] = Done(f, "FileExistsError")]
                /\ UNCHANGED <<baseDir, rootEntry>>
           ELSE /\ baseDir' = TRUE
                /\ rootEntry' = [rootEntry EXCEPT ![f.tid] = "dir"]
                /\ fr' = [fr EXCEPT ![p] = [f EXCEPT !.pc = "cv_mkdir"]]
    /\ UNCHANGED <<verEntry, metaFile, contFile, calls, completed, mgrVars, cli>>

\* pathlib's mkdir(parents=True): self.parent.mkdir(parents=True,
\* exist_ok=True) makes base_path and the template directory where they are
\* missing; the os.mkdir of the version directory is then tried again.
CvMkParents(p) ==
    /\ fr[p].pc = "cv_mkparents"
    /\ LET f == fr[p]
       IN  IF baseDir /\ rootEntry[f.tid] = "file"
           THEN /\ fr' = [fr EXCEPT ![p] = Done(f, "FileExistsError")]
                /\ UNCHANGED <<baseDir, rootEntry>>
           ELSE /\ baseDir' = TRUE
                /\ rootEntry' = [rootEntry EXCEPT ![f.tid] = "dir"]
                /\ fr' = [fr EXCEPT ![p] = [f EXCEPT !.pc = "cv_mkdir"]]
    /\ UNCHANGED <<verEntry, metaFile, contFile, calls, completed, mgrVars, cli>>

\* Mutant of CvMetaOpen: one default record is shared by the creations, so a
\* creation without metadata stores the record of an earlier one.
CvMetaOpenSharedRecord(p) ==
    /\ fr[p].pc = "cv_meta"
    /\ LET f == fr[p]
           cell == <<f.tid, StrOf(f.ver)>>
           parsed == IF f.ver.kind = "str" THEN Parse(f.ver.s) ELSE [ok |-> TRUE, v |-> f.ver.v]
           earlier == {c \in Cells : metaFile[c].state = "map"}
           shared == IF earlier = {} THEN DefaultMetadata(f.tid, parsed.v)
                     ELSE ModelValidate(metaFile[CHOOSE c \in earlier : TRUE]).metadata
       IN  IF f.metadata.none /\ ~parsed.ok
           THEN /\ fr' = [fr EXCEPT ![p] = Done(f, "ValueError")]
                /\ UNCHANGED metaFile
           ELSE /\ fr' = [fr EXCEPT ![p] =
                            [f EXCEPT !.pc = "cv_meta_write", !.wrote = @ \cup {"metadata"},
                                      !.md = IF f.metadata.none THEN shared
                                             ELSE f.metadata.val]]
                /\ metaFile' = [metaFile EXCEPT ![cell] = NullDoc]
    /\ UNCHANGED <<baseDir, rootEntry, verEntry, contFile, calls, completed, mgrVars, cli>>

\* create_version, lines 191-198: the metadata record is built and the
\* metadata file opened for writing, which creates it empty.
CvMetaOpen(p) ==
    /\ fr[p].pc = "cv_meta"
    /\ LET f == fr[p]
           cell == <<f.tid, StrOf(f.ver)>>
           parsed == IF f.ver.kind = "str" THEN Parse(f.ver.s) ELSE [ok |-> TRUE, v |-> f.ver.v]
       IN  IF f.metadata.none /\ ~parsed.ok
           THEN /\ fr' = [fr EXCEPT ![p] = Done(f, "ValueError")]
                /\ UNCHANGED metaFile
           ELSE /\ fr' = [fr EXCEPT ![p] =
                            [f EXCEPT !.pc = "cv_meta_write", !.wrote = @ \cup {"metadata"},
                                      !.md = IF f.metadata.none
                                             THEN DefaultMetadata(f.tid, parsed.v)
                                             ELSE f.metadata.val]]
                /\ metaFile' = [metaFile EXCEPT ![cell] = NullDoc]
    /\ UNCHANGED <<baseDir, rootEntry, verEntry, contFile, calls, completed, mgrVars, cli>>

\* Mutant of CvMetaWrite: the path of the metadata file is built from the
\* record's template_id and version, not from the call's.
CvMetaWriteByRecord(p) ==
    /\ fr[p].pc = "cv_meta_write"
    /\ LET f == fr[p]
           cell == <<f.md.template_id, Str(f.md.version)>>
       IN  /\ metaFile' = [metaFile EXCEPT ![cell] = SafeDump(ModelDump(f.md))]
           /\ fr' = [fr EXCEPT ![p] = [f EXCEPT !.pc = "cv_cont"]]
    /\ UNCHANGED <<baseDir, rootEntry, verEntry, contFile, calls, completed, mgrVars, cli>>

\* write_text of the metadata file: the text reaches the file when it is
\* closed.
CvMetaWrite(p) ==
    /\ fr[p].pc = "cv_meta_write"
    /\ LET f == fr[p]
           cell == <<f.tid, StrOf(f.ver)>>
       IN  /\ metaFile' = [metaFile EXCEPT ![cell] = SafeDump(ModelDump(f.md))]
           /\ fr' = [fr EXCEPT ![p] = [f EXCEPT !.pc = "cv_cont"]]
    /\ UNCHANGED <<baseDir, rootEntry, verEntry, contFile, calls, completed, mgrVars, cli>>

\* create_version, line 200: the content file is opened for writing, which
\* creates it empty.
CvContOpen(p) ==
    /\ fr[p].pc = "cv_cont"
    /\ LET f == fr[p]
           cell == <<f.tid, StrOf(f.ver)>>
       IN  /\ contFile' = [contFile EXCEPT ![cell] = TextFile(<<>>)]
           /\ fr' = [fr EXCEPT ![p] = [f EXCEPT !.pc = "cv_cont_write",
                                                !.wrote = @ \cup {"content"}]]
    /\ UNCHANGED <<baseDir, rootEntry, verEntry, metaFile, calls, completed, mgrVars, cli>>

\* write_text of the content file; create_version returns.
CvContWrite(p) ==
    /\ fr[p].pc = "cv_cont_write"
    /\ LET f == fr[p]
           cell == <<f.tid, StrOf(f.ver)>>
       IN  /\ contFile' = [contFile EXCEPT ![cell] = TextFile(WriteText(f.template_content))]
           /\ fr' = [fr EXCEPT ![p] = Done(f, "")]
           /\ completed' = completed \cup {cell}
    /\ UNCHANGED <<baseDir, rootEntry, verEntry, metaFile, calls, mgrVars, cli>>

\* get_template_version, lines 76-95
get_template_version(p, t, ver) ==
    /\ CanCall(p)
    /\ LET r == GetTemplateVersion(t, ver)
           f == [IdleFrame EXCEPT !.op = "get_template_version", !.tid = t, !.ver = ver]
       IN  fr' = [fr EXCEPT ![p] =
                    IF r.exc # "" THEN Done(f, r.exc)
                    ELSE Done([f EXCEPT !.versions = <<r.tv>>], "")]
    /\ calls' = calls + 1
    /\ UNCHANGED <<fsVars, completed, mgrVars, cli>>

\* get_template_version_content, lines 212-215: read_text of the content
\* file at str(version).
GetTemplateVersionContent(t, ver) ==
    LET cell == <<t, StrOf(ver)>>
    IN  IF cell \in Cells /\ IsTemplateDir(t) /\ contFile[cell].exists
        THEN [exc |-> "", text |-> ReadText(contFile[cell].text)]
        ELSE [exc |-> "FileNotFoundError", text |-> <<>>]

\* Mutant of get_template_version_content: the content file is opened for
\* appending, which creates it where it is missing.
GetContentCreatesFile(p, t, ver) ==
    /\ CanCall(p)
    /\ LET r == GetTemplateVersionContent(t, ver)
           f == [IdleFrame EXCEPT !.op = "get_template_version_content", !.tid = t, !.ver = ver]
           cell == <<t, StrOf(ver)>>
       IN  /\ fr' = [fr EXCEPT ![p] = Done([f EXCEPT !.text = r.text], r.exc)]
           /\ contFile' = IF verEntry[cell] = "dir" /\ ~contFile[cell].exists
                          THEN [contFile EXCEPT ![cell] = TextFile(<<>>)]
                          ELSE contFile
    /\ calls' = calls + 1
    /\ UNCHANGED <<baseDir, rootEntry, verEntry, metaFile, completed, mgrVars, cli>>

get_template_version_content(p, t, ver) ==
    /\ CanCall(p)
    /\ LET r == GetTemplateVersionContent(t, ver)
           f == [IdleFrame EXCEPT !.op = "get_template_version_content", !.tid = t, !.ver = ver]
       IN  fr' = [fr EXCEPT ![p] = Done([f EXCEPT !.text = r.text], r.exc)]
    /\ calls' = calls + 1
    /\ UNCHANGED <<fsVars, completed, mgrVars, cli>>

\* list_template_versions (lines 120-139), get_latest_version (141-148) and
\* get_template (69-74) start with the directory check and the listing.
CallScan(p, op, t) ==
    /\ CanCall(p)
    /\ fr' = [fr EXCEPT ![p] = ListBegin([IdleFrame EXCEPT !.op = op, !.tid = t])]
    /\ calls' = calls + 1
    /\ UNCHANGED <<fsVars, completed, mgrVars, cli>>

list_template_versions(p, t) == CallScan(p, "list_template_versions", t)

get_latest_version(p, t) == CallScan(p, "get_latest_version", t)

get_template(p, t) == CallScan(p, "get_template", t)

\* One child directory of the template is looked at (lines 126-138).
Scan(p) ==
    /\ fr[p].pc = "scan"
    /\ fr' = [fr EXCEPT ![p] = ScanChild(fr[p])]
    /\ UNCHANGED <<fsVars, calls, completed, mgrVars, cli>>

\* list_templates, lines 98-101: the sorted listing of base_path.
list_templates(p) ==
    /\ CanCall(p)
    /\ LET f == [IdleFrame EXCEPT !.op = "list_templates"]
       IN  fr' = [fr EXCEPT ![p] =
                    IF ~baseDir THEN Done(f, "FileNotFoundError")
                    ELSE LtContinue([f EXCEPT !.roots =
                            SortNames({r \in RootNames : rootEntry[r] # "absent"})])]
    /\ calls' = calls + 1
    /\ UNCHANGED <<fsVars, completed, mgrVars, cli>>

\* list_templates, lines 102-106: the next entry of base_path.
LtStep(p) ==
    /\ fr[p].pc = "lt_loop"
    /\ LET f == fr[p]
           r == Head(f.roots)
           g == [f EXCEPT !.roots = Tail(@), !.tid = r]
       IN  fr' = [fr EXCEPT ![p] =
                    IF rootEntry[r] # "dir" THEN LtContinue(g) ELSE ListBegin(g)]
    /\ UNCHANGED <<fsVars, calls, completed, mgrVars, cli>>

\* --------------------------------------------------------------- manager

\* The methods of a TemplateStore.
TemplateStoreMethods ==
    {"list_templates", "get_template", "create_template", "list_template_versions",
     "get_template_version", "create_version", "get_template_version_content"}

\* self.store.<method>(template_id, version), for the methods that return a
\* content: a name that is no attribute of the store raises AttributeError.
CallStore(method, t, ver) ==
    IF method \notin TemplateStoreMethods THEN [exc |-> "AttributeError", text |-> <<>>]
    ELSE IF method = "get_template_version_content" THEN GetTemplateVersionContent(t, ver)
    ELSE [exc |-> "TypeError", text |-> <<>>]

\* The store method get_prompt asks for (manager.py, line 40).
PromptStoreMethod == "get_template_content"

EmptyDict == [k \in {} |-> ""]
FlagDict == [k \in {"flag"} |-> "x"]

\* d[k] = v
DictSet(d, k, v) == [j \in DOMAIN d \cup {k} |-> IF j = k THEN v ELSE d[j]]

\* dict(d) on the heap h: a new object with the items of h[d]; its id is
\* Len(h) + 1.
DictCopy(h, d) == Append(h, h[d])

\* The renderer classes: PromptRenderer.__init__ keeps the config it is given
\* (the engines of the package only read it); the RecordingRenderer of the
\* tests writes a key into it.
RendererClasses == {"PromptRenderer", "RecordingRenderer"}

Renderer(template, cfg) == [template |-> template, config |-> cfg]
NoRenderer == Renderer(<<>>, 0)

\* renderer_cls.from_template(template, config=cfg) on the heap h:
\* [renderer, heap]
FromTemplate(cls, h, template, cfg) ==
    [renderer |-> Renderer(template, cfg),
     heap |-> IF cls = "RecordingRenderer"
              THEN [h EXCEPT ![cfg] = DictSet(@, "mutated_by_renderer", "true")]
              ELSE h]

\* renderer.render(context=dict(context))
Render(r, ctx) == r.template \o <<"|">> \o ctx

\* The keys of the renderer cache: (template_id, str(version)).
PromptKeys == TemplateIds \X {Str(v) : v \in Versions}

\* The manager before PromptDepotManager.__init__ has run.
NoManager ==
    /\ heap = <<>>
    /\ external_default_config = 0
    /\ manager = [renderer_cls |-> "", renderer_cache |-> [k \in PromptKeys |-> NoRenderer],
                  default_config |-> 0]
    /\ storeLog = <<>>
    /\ prompts = <<>>

\* PromptDepotManager.__init__, lines 20-29: default_config is a copy of the
\* dict the caller passed, or a new empty dict.
ManagerInit ==
    \E cls \in RendererClasses, given \in BOOLEAN :
        /\ heap = IF given THEN DictCopy(<<FlagDict>>, 1) ELSE <<EmptyDict>>
        /\ external_default_config = IF given THEN 1 ELSE 0
        /\ manager = [renderer_cls |-> cls,
                      renderer_cache |-> [k \in PromptKeys |-> NoRenderer],
                      default_config |-> IF given THEN 2 ELSE 1]
        /\ storeLog = <<>>
        /\ prompts = <<>>

\* The number of get_prompt calls.
MaxPrompts == 2

Prompt(key, ctx, hit, exc, out) ==
    [key |-> key, context |-> ctx, hit |-> hit, exc |-> exc, out |-> out]

\* PromptDepotManager.get_prompt, lines 37-47
get_prompt(t, ver, ctx) ==
    /\ Len(prompts) < MaxPrompts
    /\ LET key == <<t, StrOf(ver)>>
           cached == manager.renderer_cache[key]
           r == CallStore(PromptStoreMethod, t, ver)
           made == FromTemplate(manager.renderer_cls, DictCopy(heap, manager.default_config),
                                r.text, Len(heap) + 1)
       IN  IF cached # NoRenderer
           THEN /\ prompts' = Append(prompts, Prompt(key, ctx, TRUE, "", Render(cached, ctx)))
                /\ UNCHANGED <<heap, manager, storeLog>>
           ELSE /\ storeLog' = Append(storeLog, [method |-> PromptStoreMethod, key |-> key])
                /\ IF r.exc # ""
                   THEN /\ prompts' = Append(prompts, Prompt(key, ctx, FALSE, r.exc, <<>>))
                        /\ UNCHANGED <<heap, manager>>
                   ELSE /\ heap' = made.heap
                        /\ manager' = [manager EXCEPT !.renderer_cache[key] = made.renderer]
                        /\ prompts' = Append(prompts, Prompt(key, ctx, FALSE, "",
                                                             Render(made.renderer, ctx)))
    /\ UNCHANGED <<fsVars, fr, calls, completed, external_default_config, cli>>

\* ------------------------------------------------------------------- cli

\* The process of a command, which makes its own store (get_store).
CliProc == "p1"

\* The number of commands run.
MaxCommands == 2

\* No command has run. A command: its name, its arguments and options, what
\* the user types at its prompts, its calls of the store, what it prints and
\* its exit status (-1 while it runs).
NoCommand ==
    [pc |-> "idle", cmd |-> "", template_id |-> <<>>, version |-> None(<<>>),
     from_previous |-> FALSE, empty |-> FALSE, with_content |-> FALSE,
     content |-> None(<<>>), stdin |-> [version |-> <<>>, content |-> <<>>],
     store_calls |-> <<>>, output |-> <<>>, exit_code |-> -1, commands |-> 0]

\* bool(x) of an optional str: None and "" are false.
Truthy(x) == ~x.none /\ x.val # <<>>

\* Mutant of IsFileExistsError: the subclass is not caught.
IsFileExistsErrorOnly(exc) == exc = "FileExistsError"

\* except FileExistsError: the class and its subclass.
IsFileExistsError(exc) == exc \in {"FileExistsError", "VersionAlreadyExistsError"}

Out(c, m) == [c EXCEPT !.output = Append(@, m)]

\* The command ends: it returns (0), raises typer.BadParameter (2) or
\* raises another exception (1).
Exit(c, code) == [c EXCEPT !.pc = "exited", !.exit_code = code]

StoreCall(method, t, v, s, content) ==
    [method |-> method, template_id |-> t, version |-> v, strategy |-> s, content |-> content]

Called(c, call) == [c EXCEPT !.store_calls = Append(@, call)]

\* versions_create, lines 61-68
VcStrategy(c) ==
    IF c.from_previous THEN FROM_PREVIOUS_VERSION
    ELSE IF c.empty THEN EMPTY
    ELSE IF c.with_content THEN WITH_CONTENT
    ELSE FROM_PREVIOUS_VERSION

\* Mutant of VcSelected: --with-content is not among the flags counted.
VcSelectedOfTwo(c) == Cardinality({x \in {"from_previous", "empty"} : c[x]})

\* versions_create, lines 54-55: the number of strategy flags set.
VcSelected(c) == Cardinality({x \in {"from_previous", "empty", "with_content"} : c[x]})

\* versions_create, lines 53-83, with the version v: the check of the flags,
\* the strategy, the warning, the prompt for the content and the call of
\* create_version. [cli, calls_store, frame]
VcContinue(c, v) ==
    IF VcSelected(c) > 1
    THEN [cli |-> Exit(Out(c, "error:mutually-exclusive"), 2), calls_store |-> FALSE,
          frame |-> IdleFrame]
    ELSE LET s == VcStrategy(c)
             c1 == IF s # WITH_CONTENT /\ Truthy(c.content)
                   THEN Out(c, "warning:content-ignored") ELSE c
             ask == s = WITH_CONTENT /\ ~Truthy(c.content)
             c2 == IF ask THEN Out(c1, "prompt:content") ELSE c1
             content == IF ask THEN Some(c.stdin.content) ELSE c.content
         IN  [cli |-> [Called(c2, StoreCall("create_version", c.template_id, v, s, content))
                          EXCEPT !.pc = "vc_create"],
              calls_store |-> TRUE,
              frame |-> CreateBegin("create_version", c.template_id, AsStr(v),
                                    None(IdleFrame.md), s, content)]

\* versions_create, lines 46-83 up to its first call of the store:
\* get_template where no version was given, create_version otherwise.
versions_create(t, version, fp, e, wc, content, stdin) ==
    /\ cli.pc \in {"idle", "exited"}
    /\ cli.commands < MaxCommands
    /\ LET c == [NoCommand EXCEPT !.cmd = "versions create", !.template_id = t,
                                  !.version = version, !.from_previous = fp, !.empty = e,
                                  !.with_content = wc, !.content = content,
                                  !.stdin = stdin, !.commands = cli.commands + 1]
           r == VcContinue(c, version.val)
       IN  IF ~Truthy(version)
           THEN /\ cli' = [Called(c, StoreCall("get_template", t, <<>>, "", None(<<>>)))
                              EXCEPT !.pc = "vc_get_template"]
                /\ fr' = [fr EXCEPT ![CliProc] =
                            ListBegin([IdleFrame EXCEPT !.op = "get_template", !.tid = t])]
           ELSE /\ cli' = r.cli
                /\ fr' = [fr EXCEPT ![CliProc] = r.frame]
    /\ UNCHANGED <<fsVars, calls, completed, mgrVars>>

\* versions_create, lines 48-83 after get_template: the prompt for the
\* version, then as with a version given.
VcPromptVersion ==
    /\ cli.pc = "vc_get_template"
    /\ fr[CliProc].pc = "done"
    /\ LET r == VcContinue(Out(cli, "prompt:version"), cli.stdin.version)
       IN  IF fr[CliProc].exc # ""
           THEN /\ cli' = Exit(Out(cli, "traceback"), 1)
                /\ UNCHANGED fr
           ELSE /\ cli' = r.cli
                /\ fr' = [fr EXCEPT ![CliProc] = IF r.calls_store THEN r.frame ELSE @]
    /\ UNCHANGED <<fsVars, calls, completed, mgrVars>>

\* versions_create, lines 84-90: after create_version.
VcCreated ==
    /\ cli.pc = "vc_create"
    /\ fr[CliProc].pc = "done"
    /\ cli' = IF fr[CliProc].exc = "" THEN Exit(Out(cli, "success"), 0)
              ELSE IF IsFileExistsError(fr[CliProc].exc)
                   THEN Exit(Out(cli, "already-exists"), 0)
              ELSE Exit(Out(cli, "traceback"), 1)
    /\ UNCHANGED <<fsVars, fr, calls, completed, mgrVars>>

\* templates_create, lines 16-19: the prompt for the id and the call of
\* create_template.
templates_create(stdin) ==
    /\ cli.pc \in {"idle", "exited"}
    /\ cli.commands < MaxCommands
    /\ LET c == [NoCommand EXCEPT !.cmd = "templates create", !.template_id = stdin,
                                  !.commands = cli.commands + 1]
       IN  /\ cli' = [Called(Out(c, "prompt:template_id"),
                             StoreCall("create_template", stdin, <<>>, "", None(<<>>)))
                         EXCEPT !.pc = "tc_create"]
           /\ fr' = [fr EXCEPT ![CliProc] =
                        CreateBegin("create_template", stdin, AsSemver(initial_version),
                                    None(IdleFrame.md), EMPTY, None(<<>>))]
    /\ UNCHANGED <<fsVars, calls, completed, mgrVars>>

\* templates_create, lines 20-22: after create_template.
TcCreated ==
    /\ cli.pc = "tc_create"
    /\ fr[CliProc].pc = "done"
    /\ cli' = IF fr[CliProc].exc = "" THEN Exit(Out(cli, "success"), 0)
              ELSE IF IsFileExistsError(fr[CliProc].exc)
                   THEN Exit(Out(cli, "already-exists"), 0)
              ELSE Exit(Out(cli, "traceback"), 1)
    /\ UNCHANGED <<fsVars, fr, calls, completed, mgrVars>>

\* ------------------------------------------------------- specifications

CX == <<"X">>
CY == <<"Y">>
CCRLF == <<"X", CR, LF, "Y">>

\* A metadata record a caller passes.
M1 == Metadata(TA, V9, "t0", "d", {"x", "y"}, <<"init">>)

\* The metadata file create_version writes by default for <<template, name>>.
ValidMeta(c) ==
    SafeDump(ModelDump(DefaultMetadata(c[1], IF Parse(c[2]).ok THEN Parse(c[2]).v ELSE V1)))

\* A store nothing has been created in: base_path does not exist yet.
InitFresh ==
    /\ baseDir = FALSE
    /\ rootEntry = [r \in RootNames |-> "absent"]
    /\ verEntry = [c \in Cells |-> "absent"]
    /\ metaFile = [c \in Cells |-> NoMeta]
    /\ contFile = [c \in Cells |-> NoFile]
    /\ completed = {}

\* A store in which earlier calls created versions 9.0.0 and 10.0.0 of
\* template a.
Populated == {<<TA, Str(V9)>>, <<TA, Str(V10)>>}

InitPopulated ==
    /\ baseDir = TRUE
    /\ rootEntry = [r \in RootNames |-> IF r = TA THEN "dir" ELSE "absent"]
    /\ verEntry = [c \in Cells |-> IF c \in Populated THEN "dir" ELSE "absent"]
    /\ metaFile = [c \in Cells |-> IF c \in Populated THEN ValidMeta(c) ELSE NoMeta]
    /\ contFile = [c \in Cells |->
                     IF c = <<TA, Str(V9)>> THEN TextFile(CX)
                     ELSE IF c = <<TA, Str(V10)>> THEN TextFile(CY)
                     ELSE NoFile]
    /\ completed = Populated

Init ==
    /\ InitFresh \/ InitPopulated
    /\ fr = [p \in Procs |-> IdleFrame]
    /\ calls = 0
    /\ NoManager
    /\ cli = NoCommand

Step(p) ==
    \/ Scan(p)
    \/ LtStep(p)
    \/ CvReadPrev(p)
    \/ CvExists(p)
    \/ CvMkdir(p)
    \/ CvMkParents(p)
    \/ CvMetaOpen(p)
    \/ CvMetaWrite(p)
    \/ CvContOpen(p)
    \/ CvContWrite(p)

\* The calls a caller can start, with arguments from the given sets.
Creates(p, T, VA, MA, CA) ==
    \/ \E t \in T, ver \in VA, m \in MA, s \in CreationStrategy, c \in CA :
            create_version(p, t, ver, m, s, c)
    \/ \E t \in T : create_template(p, t)

Reads(p, T, VA) ==
    \/ \E t \in T, ver \in VA : get_template_version(p, t, ver)
    \/ \E t \in T, ver \in VA : get_template_version_content(p, t, ver)
    \/ \E t \in T : list_template_versions(p, t)
    \/ \E t \in T : get_latest_version(p, t)
    \/ \E t \in T : get_template(p, t)
    \/ list_templates(p)

\* Spec: independent store instances working concurrently on one base path.
RaceVersions == {AsSemver(V1), AsStr(Str(V9rc))}
RaceContents == {Some(CCRLF)}

Next ==
    \E p \in Procs :
        \/ Creates(p, {TA}, RaceVersions, {None(IdleFrame.md)}, RaceContents)
        \/ Reads(p, {TA}, {AsSemver(V1)})
        \/ Step(p)

Spec == Init /\ [][Next]_vars

\* SpecLive: the callers of Spec, each of which keeps running: a call that
\* can take its next step takes it.
SpecLive == Spec /\ \A p \in Procs : WF_vars(Step(p))

\* SpecSeq: one caller, one call after the other, with every kind of
\* argument.
SeqVersions ==
    {AsSemver(V1), AsStr(Str(V9rc)), AsStr(Str(V9b)), AsStr(Str(V10)), AsStr(NotSemver)}
SeqMetadata == {None(IdleFrame.md), Some(M1)}
SeqContents == {None(<<>>), Some(CX), Some(CCRLF)}

NextSeq ==
    \/ Creates("p1", {TA}, SeqVersions, SeqMetadata, SeqContents)
    \/ Reads("p1", {TA}, SeqVersions)
    \/ Step("p1")

SpecSeq == Init /\ [][NextSeq]_vars

\* SpecFS: one caller reading a directory tree that holds whatever was put
\* there, by the store or by hand.
MaxPlanted == 2

\* What a child of a template directory can be: [entry, meta, cont].
Child(e, m, c) == [entry |-> e, meta |-> m, cont |-> c]

InvalidMap == SafeDump([EmptyMap EXCEPT !.has_template_id = TRUE, !.template_id = TA])

\* Under a name that is a release version, every kind of child; under the
\* other names, a directory with both files.
ChildKinds(c) ==
    IF c[2] \in {Str(V1), Str(V9), Str(V10)}
    THEN {Child("file", NoMeta, NoFile),
          Child("dir", NoMeta, NoFile),
          Child("dir", NoMeta, TextFile(CX)),
          Child("dir", ValidMeta(c), NoFile),
          Child("dir", ValidMeta(c), TextFile(CX)),
          Child("dir", BadYaml, TextFile(CX)),
          Child("dir", BadYaml, NoFile),
          Child("dir", NullDoc, TextFile(CX)),
          Child("dir", InvalidMap, TextFile(CX)),
          Child("dir", Unreadable, TextFile(CX))}
    ELSE {Child("dir", ValidMeta(c), TextFile(CX))}

NoChild == Child("absent", NoMeta, NoFile)

ACells == {TA} \X DirNames

\* Template a with up to MaxPlanted children of any kind.
InitPlanted ==
    \E S \in SUBSET ACells :
        /\ Cardinality(S) <= MaxPlanted
        /\ \E k \in [S -> UNION {ChildKinds(c) : c \in S}] :
            /\ \A c \in S : k[c] \in ChildKinds(c)
            /\ baseDir = TRUE
            /\ rootEntry = [r \in RootNames |-> IF r = TA THEN "dir" ELSE "absent"]
            /\ verEntry = [c \in Cells |-> IF c \in S THEN k[c].entry ELSE "absent"]
            /\ metaFile = [c \in Cells |-> IF c \in S THEN k[c].meta ELSE NoMeta]
            /\ contFile = [c \in Cells |-> IF c \in S THEN k[c].cont ELSE NoFile]

\* base_path with each name absent, a stray file, an empty directory or a
\* template with version 1.0.0.
RootKinds == {"absent", "file", "empty", "template"}

InitRoots ==
    \E k \in [RootNames -> RootKinds] :
        /\ k[TC] \in {"absent", "file"}
        /\ baseDir = TRUE
        /\ rootEntry = [r \in RootNames |->
                          IF k[r] \in {"empty", "template"} THEN "dir" ELSE k[r]]
        /\ verEntry = [c \in Cells |->
                          IF k[c[1]] = "template" /\ c[2] = Str(V1) THEN "dir" ELSE "absent"]
        /\ metaFile = [c \in Cells |->
                          IF k[c[1]] = "template" /\ c[2] = Str(V1) THEN ValidMeta(c) ELSE NoMeta]
        /\ contFile = [c \in Cells |->
                          IF k[c[1]] = "template" /\ c[2] = Str(V1) THEN TextFile(CX) ELSE NoFile]

\* Template a with 10.0.0 and 9.0.0-rc valid and, between them in name
\* order, a child 9.0.0 of any kind.
InitBetween ==
    \E k \in ChildKinds(<<TA, Str(V9)>>) :
        LET valid == {<<TA, Str(V10)>>, <<TA, Str(V9rc)>>}
            mid == <<TA, Str(V9)>>
        IN  /\ baseDir = TRUE
            /\ rootEntry = [r \in RootNames |-> IF r = TA THEN "dir" ELSE "absent"]
            /\ verEntry = [c \in Cells |-> IF c \in valid THEN "dir"
                                           ELSE IF c = mid THEN k.entry ELSE "absent"]
            /\ metaFile = [c \in Cells |-> IF c \in valid THEN ValidMeta(c)
                                           ELSE IF c = mid THEN k.meta ELSE NoMeta]
            /\ contFile = [c \in Cells |-> IF c \in valid THEN TextFile(CY)
                                           ELSE IF c = mid THEN k.cont ELSE NoFile]

InitFS ==
    /\ \/ InitFresh
       \/ InitPlanted /\ completed = {}
       \/ InitRoots /\ completed = {}
       \/ InitBetween /\ completed = {}
    /\ fr = [p \in Procs |-> IdleFrame]
    /\ calls = 0
    /\ NoManager
    /\ cli = NoCommand

FSVersions == {AsStr(n) : n \in DirNames}

NextFS ==
    \/ Reads("p1", {TA}, FSVersions)
    \/ Scan("p1")
    \/ LtStep("p1")

SpecFS == InitFS /\ [][NextFS]_vars

\* SpecMgr: a manager over the store of one caller, who creates the first
\* version of template a while the manager is asked for prompts.
PromptVersions == {AsSemver(V1), AsStr(Str(V1)), AsStr(Str(V9))}
Contexts == {<<"A">>, <<"B">>}

InitMgr ==
    /\ InitFresh \/ InitPopulated
    /\ fr = [p \in Procs |-> IdleFrame]
    /\ calls = 0
    /\ ManagerInit
    /\ cli = NoCommand

NextMgr ==
    \/ create_template("p1", TA)
    \/ CvExists("p1")
    \/ CvMkdir("p1")
    \/ CvMkParents("p1")
    \/ CvMetaOpen("p1")
    \/ CvMetaWrite("p1")
    \/ CvContOpen("p1")
    \/ CvContWrite("p1")
    \/ \E t \in {TA}, ver \in PromptVersions, ctx \in Contexts : get_prompt(t, ver, ctx)

SpecMgr == InitMgr /\ [][NextMgr]_vars

\* SpecCli: commands run one after the other, each in its own process with
\* its own store, by a user who answers the prompts.
CliVersions == {None(<<>>), Some(<<>>), Some(Str(V1)), Some(Str(V9))}
CliContents == {None(<<>>), Some(<<>>), Some(CX)}
CliStdin == {[version |-> v, content |-> CY] : v \in {Str(V1), NotSemver}}

InitCli ==
    /\ InitFresh \/ InitPopulated
    /\ fr = [p \in Procs |-> IdleFrame]
    /\ calls = 0
    /\ NoManager
    /\ cli = NoCommand

NextCli ==
    \/ \E version \in CliVersions, fp \in BOOLEAN, e \in BOOLEAN, wc \in BOOLEAN,
          content \in CliContents, stdin \in CliStdin :
            versions_create(TA, version, fp, e, wc, content, stdin)
    \/ VcPromptVersion
    \/ VcCreated
    \/ \E t \in {TA} : templates_create(t)
    \/ TcCreated
    \/ Scan(CliProc)
    \/ CvReadPrev(CliProc)
    \/ CvExists(CliProc)
    \/ CvMkdir(CliProc)
    \/ CvMkParents(CliProc)
    \/ CvMetaOpen(CliProc)
    \/ CvMetaWrite(CliProc)
    \/ CvContOpen(CliProc)
    \/ CvContWrite(CliProc)

SpecCli == InitCli /\ [][NextCli]_vars

\* ----------------------------------------------------------------- claims

Creating(f) == f.op \in {"create_version", "create_template"}

CellOf(f) == <<f.tid, StrOf(f.ver)>>

ValidVersionArg(f) == f.ver.kind = "semver" \/ Parse(f.ver.s).ok

\* The frame a list_template_versions(t) call run alone ends with in the
\* current state.
RECURSIVE RunScan(_)
RunScan(f) == IF f.pc = "scan" THEN RunScan(ScanChild(f)) ELSE f

ListTemplateVersions(t) ==
    RunScan(ListBegin([IdleFrame EXCEPT !.op = "list_template_versions", !.tid = t]))

\* The valid versions of f's template before f's call claimed its directory,
\* in a state where no other call has acted since.
PrevVersions(f) ==
    LET l == ListTemplateVersions(f.tid).versions
    IN  {l[i].version : i \in 1..Len(l)} \
            (IF "dir" \in f.wrote THEN {v \in Versions : Str(v) = StrOf(f.ver)} ELSE {})

Latest(S) == CHOOSE v \in S : \A w \in S : Compare(w, v) <= 0

\* C1: two create_version calls of different store instances on the same
\* (template_id, version): exactly one claims the directory and writes both
\* files, the other fails with VersionAlreadyExistsError and writes nothing.
C1_RaceOneWinner ==
    \A p \in Procs : \A q \in Procs \ {p} :
        (/\ fr[p].pc = "done" /\ fr[q].pc = "done"
         /\ Creating(fr[p]) /\ Creating(fr[q])
         /\ CellOf(fr[p]) = CellOf(fr[q])
         /\ CellOf(fr[p]) \notin Populated)
        => \E w \in {p, q} :
            LET l == CHOOSE l \in {p, q} : l # w
            IN  /\ fr[w].exc = "" /\ fr[w].wrote = {"dir", "metadata", "content"}
                /\ fr[l].exc = "VersionAlreadyExistsError" /\ fr[l].wrote = {}

\* C2: a create_version on a (template_id, version) an earlier call created
\* raises VersionAlreadyExistsError, with any arguments, and changes neither
\* file of the version.
C2_SecondCreateRaises ==
    [][\A p \in Procs :
          LET f == fr[p]
              g == fr'[p]
          IN  (g # f /\ Creating(g) /\ CellOf(g) \in completed)
              => /\ verEntry'[CellOf(g)] = verEntry[CellOf(g)]
                 /\ metaFile'[CellOf(g)] = metaFile[CellOf(g)]
                 /\ contFile'[CellOf(g)] = contFile[CellOf(g)]
                 /\ g.wrote = {}
                 /\ g.pc = "done" => g.exc = "VersionAlreadyExistsError"]_vars

C2_Witness ==
    \E p \in Procs :
        /\ fr[p].pc = "done" /\ fr[p].op = "create_version"
        /\ fr[p].exc = "VersionAlreadyExistsError"
        /\ fr[p].strategy = FROM_PREVIOUS_VERSION
        /\ ~fr[p].metadata.none /\ ~fr[p].content.none
        /\ CellOf(fr[p]) \in completed \ Populated

\* C3: once a version is complete no step of any operation changes or
\* removes its directory, metadata file or content file, and
\* get_template_version and get_template_version_content keep returning the
\* same values for it.
C3_CompleteIsImmutable ==
    [][\A c \in completed :
          LET tv == GetTemplateVersionIn(metaFile', contFile', c[1], AsStr(c[2]))
              text == GetTemplateVersionContent(c[1], AsStr(c[2]))'
          IN  /\ c \in completed'
              /\ verEntry'[c] = verEntry[c]
              /\ metaFile'[c] = metaFile[c]
              /\ contFile'[c] = contFile[c]
              /\ tv.exc = ""
              /\ tv = GetTemplateVersion(c[1], AsStr(c[2]))
              /\ text.exc = ""
              /\ text = GetTemplateVersionContent(c[1], AsStr(c[2]))]_vars

C3_Witness ==
    \E p \in Procs : \E q \in Procs \ {p} :
        /\ fr[p].pc = "done" /\ Creating(fr[p]) /\ fr[p].exc = ""
        /\ CellOf(fr[p]) \in completed \ Populated
        /\ fr[q].pc = "done" /\ Creating(fr[q])
        /\ CellOf(fr[q]) = CellOf(fr[p])
        /\ fr[q].exc # ""

\* C4: where list_template_versions(id) returns at least one version,
\* get_template(id).latest_version and get_latest_version(id).version are the
\* greatest of the listed versions by semantic-version precedence.
C4_LatestIsSemverMax ==
    \A p \in Procs :
        LET f == fr[p]
            l == ListTemplateVersions(f.tid)
            got == IF f.op = "get_template" THEN f.templates[1].latest_version
                   ELSE f.versions[1].version
        IN  (/\ f.pc = "done" /\ f.op \in {"get_template", "get_latest_version"}
             /\ l.exc = "" /\ l.versions # <<>>)
            => /\ f.exc = ""
               /\ \E i \in 1..Len(l.versions) : l.versions[i].version = got
               /\ \A i \in 1..Len(l.versions) : Compare(l.versions[i].version, got) <= 0

C4_Witness ==
    \E p \in Procs :
        /\ fr[p].pc = "done" /\ fr[p].op = "get_template" /\ fr[p].exc = ""
        /\ fr[p].templates[1].latest_version = V10
        /\ GetTemplateVersion(fr[p].tid, AsStr(Str(V9))).exc = ""

\* The content of the latest version that existed before f's call, as
\* get_template_version_content returns it; empty where there was none.
PrevContent(f) ==
    IF PrevVersions(f) = {} THEN <<>>
    ELSE GetTemplateVersionContent(f.tid, AsSemver(Latest(PrevVersions(f)))).text

\* The content f's strategy selects.
Selected(f) ==
    CASE f.strategy = WITH_CONTENT -> IF f.content.none THEN <<>> ELSE f.content.val
      [] f.strategy = EMPTY -> <<>>
      [] OTHER -> PrevContent(f)

\* C5: after a successful create_version, get_template_version returns the
\* version, with the metadata that was passed if any, and
\* get_template_version_content returns exactly the content the strategy
\* selected.
C5_RoundTrip ==
    \A p \in Procs :
        LET f == fr[p]
            g == GetTemplateVersion(f.tid, f.ver)
            c == GetTemplateVersionContent(f.tid, f.ver)
        IN  (f.pc = "done" /\ f.op = "create_version" /\ f.exc = "" /\ ValidVersionArg(f))
            => /\ g.exc = ""
               /\ Str(g.tv.version) = StrOf(f.ver)
               /\ ~f.metadata.none => g.tv.metadata = f.metadata.val
               /\ c.exc = ""
               /\ c.text = Selected(f)

\* C6: create_version with FROM_PREVIOUS_VERSION stores a content equal to
\* the content of the latest version that existed before the call; with no
\* earlier version it stores an empty content, logs a warning and does not
\* raise.
C6_FromPrevious ==
    \A p \in Procs :
        LET f == fr[p]
            S == PrevVersions(f)
        IN  (/\ f.pc = "done" /\ f.op = "create_version"
             /\ f.strategy = FROM_PREVIOUS_VERSION /\ ValidVersionArg(f)
             /\ f.exc # "VersionAlreadyExistsError")
            => /\ f.exc = ""
               /\ S # {} => contFile[CellOf(f)].text
                               = contFile[<<f.tid, Str(Latest(S))>>].text
               /\ S = {} => /\ contFile[CellOf(f)] = TextFile(<<>>)
                            /\ \E i \in 1..Len(f.log) : f.log[i] = "warning:no-previous"

\* C7: EMPTY stores an empty content; a content argument given with a
\* strategy other than WITH_CONTENT is ignored with a warning: the call
\* succeeds as it does without it and what is stored does not depend on it.
C7_EmptyAndIgnoredContent ==
    \A p \in Procs :
        LET f == fr[p]
        IN  (f.pc = "done" /\ Creating(f) /\ f.strategy # WITH_CONTENT /\ ValidVersionArg(f))
            => /\ f.exc \in {"", "VersionAlreadyExistsError"}
               /\ (f.exc = "" /\ f.strategy = EMPTY) => contFile[CellOf(f)] = TextFile(<<>>)
               /\ (f.exc = "" /\ f.strategy = FROM_PREVIOUS_VERSION)
                    => ReadText(contFile[CellOf(f)].text) = PrevContent(f)
               /\ ~f.content.none
                    => \E i \in 1..Len(f.log) : f.log[i] = "warning:content-ignored"

C7_Witness ==
    \E p \in Procs :
        /\ fr[p].pc = "done" /\ fr[p].op = "create_version" /\ fr[p].exc = ""
        /\ fr[p].strategy = EMPTY
        /\ fr[p].content = Some(CX)
        /\ contFile[CellOf(fr[p])] = TextFile(<<>>)
        /\ PrevVersions(fr[p]) # {}

\* C8: WITH_CONTENT stores exactly the content argument, whatever the other
\* versions hold; with content None it stores an empty content, logs a
\* warning and does not raise.
C8_WithContent ==
    \A p \in Procs :
        LET f == fr[p]
        IN  (f.pc = "done" /\ f.op = "create_version" /\ f.strategy = WITH_CONTENT)
            => /\ ValidVersionArg(f) => f.exc \in {"", "VersionAlreadyExistsError"}
               /\ f.exc = "" =>
                    contFile[CellOf(f)] = TextFile(IF f.content.none THEN <<>> ELSE f.content.val)
               /\ f.content.none
                    => \E i \in 1..Len(f.log) : f.log[i] = "warning:no-content"

C8_Witness ==
    \E p \in Procs :
        /\ fr[p].pc = "done" /\ fr[p].op = "create_version" /\ fr[p].exc = ""
        /\ fr[p].strategy = WITH_CONTENT
        /\ fr[p].content = Some(CCRLF)
        /\ contFile[CellOf(fr[p])].text = CCRLF
        /\ PrevContent(fr[p]) = CY

\* A metadata file model_validate accepts.
WellFormed(m) ==
    m.state = "map" /\ m.map.has_template_id /\ m.map.has_version /\ Parse(m.map.version).ok

Listed(f, n) == f.exc = "" /\ \E i \in 1..Len(f.versions) : Str(f.versions[i].version) = n

\* C9: a version directory of an existing template is in the list
\* list_template_versions returns if and only if it holds a well-formed
\* metadata file and a content file; one that has no metadata file, or a
\* well-formed one and no content file, is not in the list and
\* get_template_version on it raises TemplateNotFoundError.
C9_ListedIffValid ==
    \A p \in Procs :
        LET f == fr[p]
        IN  (f.pc = "done" /\ f.op = "list_template_versions" /\ IsTemplateDir(f.tid))
            => \A n \in DirNames :
                LET c == <<f.tid, n>>
                IN  (verEntry[c] = "dir" /\ Parse(n).ok)
                    => /\ Listed(f, n) <=> (WellFormed(metaFile[c]) /\ contFile[c].exists)
                       /\ (\/ metaFile[c].state = "absent"
                           \/ WellFormed(metaFile[c]) /\ ~contFile[c].exists)
                            => /\ ~Listed(f, n)
                               /\ GetTemplateVersion(f.tid, AsStr(n)).exc
                                    = "TemplateNotFoundError"

\* C10: list_template_versions raises TemplateNotFoundError if and only if
\* the template directory does not exist or is not a directory, and raises
\* nothing when it exists, whatever its children are.
C10_ListRaisesOnlyNotFound ==
    \A p \in Procs :
        LET f == fr[p]
        IN  (f.pc = "done" /\ f.op = "list_template_versions")
            => /\ f.exc = "TemplateNotFoundError" <=> ~IsTemplateDir(f.tid)
               /\ IsTemplateDir(f.tid) => f.exc = ""

\* The frame a get_template(t) call run alone ends with in the current state.
GetTemplate(t) == RunScan(ListBegin([IdleFrame EXCEPT !.op = "get_template", !.tid = t]))

\* The versions of t that hold a well-formed metadata file and a content
\* file under a name that is a semantic version.
ValidVersions(t) ==
    IF ~IsTemplateDir(t) THEN {}
    ELSE {Parse(n).v : n \in {m \in DirNames : /\ Parse(m).ok
                                               /\ verEntry[<<t, m>>] = "dir"
                                               /\ WellFormed(metaFile[<<t, m>>])
                                               /\ contFile[<<t, m>>].exists}}

\* C11: list_templates never fails as a whole: over an existing base path it
\* returns a list and raises nothing, whatever the templates' versions are.
C11_ListTemplatesNeverRaises ==
    \A p \in Procs :
        (fr[p].pc = "done" /\ fr[p].op = "list_templates" /\ baseDir) => fr[p].exc = ""

\* C12: list_templates returns one Template for each directory under the
\* base path that has a valid version and nothing else, in ascending order of
\* id, each with the latest version get_template returns; an id is in the
\* list if and only if get_template succeeds on it.
C12_ListTemplatesExact ==
    \A p \in Procs :
        LET f == fr[p]
            ids == SortNames({r \in RootNames : ValidVersions(r) # {}})
        IN  (f.pc = "done" /\ f.op = "list_templates" /\ baseDir)
            => /\ f.exc = ""
               /\ Len(f.templates) = Len(ids)
               /\ \A i \in 1..Len(ids) :
                    /\ f.templates[i].id = ids[i]
                    /\ f.templates[i].latest_version \in ValidVersions(ids[i])
                    /\ \A v \in ValidVersions(ids[i]) :
                          Compare(v, f.templates[i].latest_version) <= 0
                    /\ GetTemplate(ids[i]).exc = ""
                    /\ GetTemplate(ids[i]).templates = <<f.templates[i]>>
               /\ \A r \in RootNames :
                    GetTemplate(r).exc = "" <=> \E i \in 1..Len(f.templates) : f.templates[i].id = r

\* C13: get_template and get_latest_version raise TemplateNotFoundError
\* exactly when the template has no valid version, and return when it has
\* one, whatever its other versions are.
C13_NotFoundIffNoValidVersion ==
    \A p \in Procs :
        LET f == fr[p]
        IN  (f.pc = "done" /\ f.op \in {"get_template", "get_latest_version"})
            => /\ f.exc = "TemplateNotFoundError" <=> ValidVersions(f.tid) = {}
               /\ ValidVersions(f.tid) # {} => f.exc = ""

C15_ContentNotFoundAsVersion ==
    \A p \in Procs :
        LET f == fr[p]
        IN  (f.pc = "done" /\ f.op = "get_template_version_content" /\ ValidVersionArg(f))
            => (f.exc \in {"TemplateNotFoundError", "FileNotFoundError"}
                    <=> GetTemplateVersion(f.tid, f.ver).exc = "TemplateNotFoundError")

C17_ReaderNeverSeesIncomplete ==
    \A p \in Procs :
        LET f == fr[p]
        IN  f.pc = "done"
            => /\ (f.op = "get_template_version" /\ ~contFile[CellOf(f)].exists)
                    => f.exc = "TemplateNotFoundError"
               /\ (f.op = "get_template_version" /\ f.exc = "") => CellOf(f) \in completed
               /\ f.op = "list_template_versions" => f.exc \in {"", "TemplateNotFoundError"}
               /\ f.op = "list_templates" => f.exc \in {"", "FileNotFoundError"}
               /\ f.op = "list_template_versions"
                    => \A i \in 1..Len(f.versions) :
                          <<f.tid, Str(f.versions[i].version)>> \in completed
               /\ (f.op \in {"list_templates", "get_template"} /\ f.exc = "")
                    => \A i \in 1..Len(f.templates) :
                          <<f.templates[i].id, Str(f.templates[i].latest_version)>> \in completed

\* The stage of a version, from its directory entry ve, its metadata file m
\* and its content file c: 0 absent, 1 claimed, 2 metadata written, 3 content
\* file there.
Stage(ve, m, c) ==
    IF ve # "dir" THEN 0
    ELSE IF m.state # "map" THEN 1
    ELSE IF ~c.exists THEN 2
    ELSE 3

FilesNested ==
    \A c \in Cells :
        /\ contFile[c].exists => metaFile[c].state # "absent"
        /\ metaFile[c].state # "absent" => verEntry[c] = "dir"
        /\ verEntry[c] = "dir" => IsTemplateDir(c[1])

\* C18: a version moves only forward through absent, claimed, metadata
\* written, complete: its content file exists only if its metadata file
\* exists, its metadata file only if its directory exists, and no step of
\* any operation moves it to an earlier stage.
C18_StagesOnlyForward ==
    /\ []FilesNested
    /\ [][\A c \in Cells :
            Stage(verEntry'[c], metaFile'[c], contFile'[c])
                >= Stage(verEntry[c], metaFile[c], contFile[c])]_vars

C18_Witness ==
    \E p \in Procs :
        /\ fr[p].pc = "cv_cont"
        /\ CellOf(fr[p]) \notin Populated
        /\ Stage(verEntry[CellOf(fr[p])], metaFile[CellOf(fr[p])], contFile[CellOf(fr[p])]) = 2
        /\ \E c \in completed \ Populated : c[1] = fr[p].tid

\* The writer f has claimed its version directory and has not yet opened the
\* content file.
Claimed(f) ==
    /\ f.pc \in {"cv_meta", "cv_meta_write", "cv_cont"}
    /\ "dir" \in f.wrote

\* C19: while the writer q of a claimed version makes no step (it has
\* stopped), every step of another caller p leaves the version's directory
\* and files as they are, every get_template_version on it raises, every
\* listing and every latest version omits it, and the existence check of
\* every create_version for it raises VersionAlreadyExistsError with nothing
\* written.
C19_OrphanStaysIncomplete ==
    [][\A q \in Procs : \A p \in Procs \ {q} :
          LET c == CellOf(fr[q])
              f == fr[p]
              g == fr'[p]
              ends == g # f /\ g.pc = "done"
          IN  (Claimed(fr[q]) /\ fr'[q] = fr[q])
              => /\ verEntry'[c] = verEntry[c]
                 /\ metaFile'[c] = metaFile[c]
                 /\ contFile'[c] = contFile[c]
                 /\ (ends /\ g.op = "get_template_version" /\ CellOf(g) = c) => g.exc # ""
                 /\ (ends /\ g.op \in {"list_template_versions", "get_latest_version"}
                          /\ g.tid = c[1])
                      => \A i \in 1..Len(g.versions) : Str(g.versions[i].version) # c[2]
                 /\ (ends /\ g.op \in {"get_template", "list_templates"})
                      => \A i \in 1..Len(g.templates) :
                            <<g.templates[i].id, Str(g.templates[i].latest_version)>> # c
                 /\ (g # f /\ f.pc = "cv_exists" /\ CellOf(f) = c)
                      => /\ g.pc = "done"
                         /\ g.exc = "VersionAlreadyExistsError"
                         /\ g.wrote = {}]_vars

C19_Witness ==
    \E q \in Procs : \E p \in Procs \ {q} :
        /\ Claimed(fr[q])
        /\ fr[p].pc = "done" /\ fr[p].op = "create_version"
        /\ CellOf(fr[p]) = CellOf(fr[q])
        /\ fr[p].exc = "VersionAlreadyExistsError"
        /\ fr[p].wrote = {}

\* C20: no two versions of a template with the same normalized semantic
\* version coexist: list_template_versions never returns two entries whose
\* versions compare equal, also after create_version calls whose versions
\* differ only in build metadata.
C20_NoEqualVersions ==
    \A p \in Procs :
        LET f == fr[p]
        IN  (f.pc = "done" /\ f.op = "list_template_versions" /\ f.exc = "")
            => \A i \in 1..Len(f.versions) : \A j \in 1..Len(f.versions) :
                  i # j => Compare(f.versions[i].version, f.versions[j].version) # 0

\* The content of the latest complete valid version of t, as read_text gives
\* it; empty where there is none.
LatestContent(t) ==
    LET S == {v \in ValidVersions(t) : <<t, Str(v)>> \in completed}
    IN  IF S = {} THEN <<>> ELSE ReadText(contFile[<<t, Str(Latest(S))>>].text)

\* C21: in every interleaving, the content a create_version with
\* FROM_PREVIOUS_VERSION is going to store is, at the step that claims the
\* new version's directory, the content of the template's latest valid
\* version at that moment, and empty if there is none then.
C21_SnapshotAtClaim ==
    [][\A p \in Procs :
          LET f == fr[p]
              g == fr'[p]
          IN  (/\ f.pc = "cv_mkdir" /\ g.pc = "cv_meta"
               /\ f.op = "create_version" /\ f.strategy = FROM_PREVIOUS_VERSION)
              => f.template_content = LatestContent(f.tid)]_vars

\* The get_prompt calls made so far with key k, and the reads of the store's
\* get_template_version_content they made.
AskedFor(k) == {i \in 1..Len(prompts) : prompts[i].key = k}

ContentReads(k) ==
    {i \in 1..Len(storeLog) :
        storeLog[i].key = k /\ storeLog[i].method = "get_template_version_content"}

\* C22: get_prompt keeps one renderer per (template_id, str(version)): for a
\* key whose version is in the store, get_template_version_content is called
\* exactly once, by the first get_prompt with that key, and every later
\* get_prompt with that key renders with the cached renderer.
C22_OneReadPerKey ==
    \A k \in PromptKeys :
        (k \in Populated /\ contFile[k].exists)
        => /\ Cardinality(ContentReads(k)) = IF AskedFor(k) = {} THEN 0 ELSE 1
           /\ \A i \in AskedFor(k) :
                /\ prompts[i].hit <=> \E j \in AskedFor(k) : j < i
                /\ prompts[i].exc = ""
                /\ prompts[i].out = Render(manager.renderer_cache[k], prompts[i].context)
                /\ manager.renderer_cache[k].template = ReadText(contFile[k].text)

\* C23: every renderer the manager creates for a get_prompt has a config
\* dict of its own, a copy of the default config: what a renderer writes into
\* its config changes neither the manager's default_config, nor the dict the
\* caller passed, nor the config of the renderer of another key.
C23_OwnConfigCopy ==
    LET given == external_default_config # 0
        default == IF given THEN FlagDict ELSE EmptyDict
    IN  /\ given => /\ heap[external_default_config] = FlagDict
                    /\ manager.default_config # external_default_config
        /\ heap[manager.default_config] = default
        /\ \A i \in 1..Len(prompts) :
              LET k == prompts[i].key
                  r == manager.renderer_cache[k]
              IN  (k \in Populated /\ contFile[k].exists)
                  => /\ r # NoRenderer
                     /\ r.config \notin {manager.default_config, external_default_config}
                     /\ \A o \in PromptKeys \ {k} : manager.renderer_cache[o].config # r.config
                     /\ heap[r.config] = IF manager.renderer_cls = "RecordingRenderer"
                                         THEN DictSet(default, "mutated_by_renderer", "true")
                                         ELSE default

LogCount(log, E) == Cardinality({i \in 1..Len(log) : log[i] \in E})

\* The child directories of template t that get_template_version fails on
\* with an exception of the set E.
FailingChildren(t, E) ==
    {n \in DirNames : /\ verEntry[<<t, n>>] = "dir"
                      /\ GetTemplateVersion(t, AsStr(n)).exc \in E}

OtherFailures == {"ValidationError", "ValueError", "OSError", "YAMLError"}

\* C25: a scan that returns has logged once for every child directory it
\* omitted, a warning where get_template_version or get_latest_version raised
\* TemplateNotFoundError and an error where it failed otherwise, and nothing
\* for the entries that are no directories.
C25_OmissionsLogged ==
    \A p \in Procs :
        LET f == fr[p]
            roots == {r \in RootNames : rootEntry[r] = "dir"}
        IN  /\ (f.pc = "done" /\ f.op = "list_template_versions" /\ f.exc = "")
                => /\ LogCount(f.log, {"warning:version"})
                        = Cardinality(FailingChildren(f.tid, {"TemplateNotFoundError"}))
                   /\ LogCount(f.log, {"error:version"})
                        = Cardinality(FailingChildren(f.tid, OtherFailures))
                   /\ Len(f.log) = Cardinality(FailingChildren(f.tid, OtherFailures
                                                    \cup {"TemplateNotFoundError"}))
            /\ (f.pc = "done" /\ f.op = "list_templates" /\ f.exc = "")
                => /\ LogCount(f.log, {"warning:template"})
                        = Cardinality({r \in roots : GetTemplate(r).exc = "TemplateNotFoundError"})
                   /\ LogCount(f.log, {"error:template"})
                        = Cardinality({r \in roots : GetTemplate(r).exc \in OtherFailures})

\* C26: a directory whose name is no semantic version is skipped by the
\* scans, which do not fail because of it (list_template_versions and
\* list_templates return, without it, unless another child makes them raise);
\* passed to get_template_version the same identifier is a parse error
\* (ValueError), not TemplateNotFoundError.
C26_NonSemverSkippedOrParseError ==
    \A p \in Procs :
        LET f == fr[p]
            met == verEntry[<<TA, NotSemver>>] = "dir"
            sound == FailingChildren(TA, {"YAMLError"}) = {}
        IN  f.pc = "done"
            => /\ (f.op = "get_template_version" /\ ~ValidVersionArg(f)) => f.exc = "ValueError"
               /\ (f.op = "list_template_versions" /\ f.tid = TA /\ met /\ sound)
                    => /\ f.exc = ""
                       /\ {f.versions[i].version : i \in 1..Len(f.versions)} = ValidVersions(TA)
                       /\ LogCount(f.log, {"error:version"}) >= 1
               /\ (f.op = "list_templates" /\ met /\ sound)
                    => /\ f.exc = ""
                       /\ (\E i \in 1..Len(f.templates) : f.templates[i].id = TA)
                            <=> ValidVersions(TA) # {}
               /\ (f.op \in {"get_latest_version", "get_template"} /\ f.tid = TA /\ met /\ sound)
                    => f.exc = IF ValidVersions(TA) = {} THEN "TemplateNotFoundError" ELSE ""

C26_Witness ==
    \E p \in Procs :
        /\ fr[p].pc = "done" /\ fr[p].op = "list_template_versions" /\ fr[p].exc = ""
        /\ verEntry[<<TA, NotSemver>>] = "dir"
        /\ metaFile[<<TA, NotSemver>>].state = "map"
        /\ contFile[<<TA, NotSemver>>].exists
        /\ Len(fr[p].versions) = 1
        /\ fr[p].log = <<"error:version">>
        /\ GetTemplateVersion(TA, AsStr(NotSemver)).exc = "ValueError"

\* C27: a create_version (or create_template) without metadata stores a
\* record of its own: template_id and version are the call's arguments,
\* tags and changelog are empty, whatever earlier creations stored, and
\* get_template_version reads that record back.
C27_DefaultMetadataIsFresh ==
    \A p \in Procs :
        LET f == fr[p]
            v == IF f.ver.kind = "str" THEN Parse(f.ver.s).v ELSE f.ver.v
            m == metaFile[CellOf(f)]
            r == ReadPromptMetadata(f.tid, StrOf(f.ver))
        IN  (f.pc = "done" /\ Creating(f) /\ f.exc = "" /\ f.metadata.none)
            => /\ ValidVersionArg(f)
               /\ m = SafeDump(ModelDump(DefaultMetadata(f.tid, v)))
               /\ m.map.template_id = f.tid
               /\ m.map.version = StrOf(f.ver)
               /\ m.map.tags = <<>> /\ m.map.changelog = <<>>
               /\ r.exc = ""
               /\ r.metadata = DefaultMetadata(f.tid, v)

C27_Witness ==
    \E p \in Procs :
        /\ fr[p].pc = "done" /\ fr[p].op = "create_version" /\ fr[p].exc = ""
        /\ fr[p].metadata.none
        /\ fr[p].ver = AsStr(Str(V9rc))
        /\ metaFile[<<TA, Str(V1)>>] = SafeDump(ModelDump(M1))
        /\ metaFile[<<TA, Str(V1)>>].map.tags # <<>>
        /\ metaFile[CellOf(fr[p])].map.tags = <<>>

Running(p) == fr[p].pc \notin {"idle", "done"}

\* C28: no call waits for another caller. A call that has started can always
\* take its next step, whatever the others do, and it ends (returns or
\* raises); the mkdir of the version directory is tried once with the parent
\* directory there, and a call that finds the version existing, at the check
\* or at the mkdir, ends there.
C28_EveryCallEnds ==
    /\ [](\A p \in Procs : Running(p) => ENABLED Step(p))
    /\ [][\A p \in Procs :
            LET f == fr[p]
                g == fr'[p]
                there == baseDir /\ rootEntry[f.tid] = "dir"
            IN  /\ (g # f /\ f.pc = "cv_mkdir" /\ there) => g.pc \in {"cv_meta", "done"}
                /\ (g # f /\ f.pc \in {"cv_exists", "cv_mkdir"} /\ there
                         /\ verEntry[CellOf(f)] # "absent")
                      => /\ g.pc = "done"
                         /\ g.exc \in {"VersionAlreadyExistsError", "FileExistsError"}
                         /\ g.wrote = {}
                /\ (g # f /\ g.pc = "cv_mkdir") => f.pc \in {"cv_exists", "cv_mkparents"}]_vars
    /\ \A p \in Procs : Running(p) ~> fr[p].pc = "done"

C28_Witness ==
    \E p \in Procs : \E q \in Procs \ {p} :
        /\ fr[p].pc = "done" /\ fr[p].op = "create_version"
        /\ fr[p].exc = "FileExistsError" /\ fr[p].wrote = {}
        /\ Running(q) /\ Claimed(fr[q])
        /\ CellOf(fr[q]) = CellOf(fr[p])

ReadOps ==
    {"get_template", "get_template_version", "get_template_version_content",
     "get_latest_version", "list_templates", "list_template_versions"}

\* C29: no step of a read operation, returning or raising, changes the
\* filesystem: no directory or file appears, changes or disappears, and what
\* get_template_version and get_template_version_content give for any
\* entry of a template directory is the same after the step as before it.
C29_ReadsChangeNothing ==
    [][\A p \in Procs :
          (fr'[p] # fr[p] /\ fr'[p].op \in ReadOps)
          => /\ fsVars' = fsVars
             /\ completed' = completed
             /\ \A c \in {x \in Cells : verEntry[x] # "absent"} :
                  /\ GetTemplateVersionIn(metaFile', contFile', c[1], AsStr(c[2]))
                        = GetTemplateVersion(c[1], AsStr(c[2]))
                  /\ GetTemplateVersionContent(c[1], AsStr(c[2]))'
                        = GetTemplateVersionContent(c[1], AsStr(c[2]))]_vars

C29_Witness ==
    \E p \in Procs :
        /\ fr[p].pc = "done" /\ fr[p].op = "get_template_version_content"
        /\ fr[p].exc = "FileNotFoundError"
        /\ calls = 2
        /\ verEntry[CellOf(fr[p])] = "dir"
        /\ metaFile[CellOf(fr[p])].state = "map"
        /\ ~contFile[CellOf(fr[p])].exists

\* C30: every step of a create_version (or create_template) changes at most
\* the directory, the metadata file and the content file of its own
\* (template_id, version) and creates the missing parent directories: every
\* other version of the template, the one its content is copied from
\* included, and every other template stay as they are.
C30_CreateTouchesOnlyItsVersion ==
    [][\A p \in Procs :
          LET f == fr[p]
              g == fr'[p]
          IN  (g # f /\ Creating(g))
              => /\ \A c \in Cells \ {CellOf(g)} :
                      /\ verEntry'[c] = verEntry[c]
                      /\ metaFile'[c] = metaFile[c]
                      /\ contFile'[c] = contFile[c]
                 /\ \A r \in RootNames \ {g.tid} : rootEntry'[r] = rootEntry[r]
                 /\ rootEntry'[g.tid] # rootEntry[g.tid]
                      => rootEntry[g.tid] = "absent" /\ rootEntry'[g.tid] = "dir"
                 /\ baseDir => baseDir'
                 /\ g.pc = "done" /\ g.exc = ""
                      => /\ verEntry'[CellOf(g)] = "dir"
                         /\ metaFile'[CellOf(g)].state = "map"
                         /\ contFile'[CellOf(g)].exists]_vars

C30_Witness ==
    \E p \in Procs :
        /\ fr[p].pc = "done" /\ fr[p].op = "create_version" /\ fr[p].exc = ""
        /\ fr[p].strategy = FROM_PREVIOUS_VERSION
        /\ fr[p].metadata = Some(M1)
        /\ CellOf(fr[p]) = <<TA, Str(V1)>>
        /\ contFile[CellOf(fr[p])] = TextFile(CY)
        /\ contFile[<<TA, Str(V10)>>] = TextFile(CY)
        /\ metaFile[<<TA, Str(V10)>>] = ValidMeta(<<TA, Str(V10)>>)
        /\ metaFile[<<TA, Str(V9)>>] = ValidMeta(<<TA, Str(V9)>>)

\* C31: a create_version call that raises (VersionAlreadyExistsError, a
\* version string that is no semantic version, an error of the lookup of the
\* previous version) leaves the filesystem as it was before the call: it has
\* claimed no version directory and written no file.
C31_FailedCreateWritesNothing ==
    \A p \in Procs :
        (fr[p].pc = "done" /\ Creating(fr[p]) /\ fr[p].exc # "")
            => fr[p].wrote = {}

\* C32: two callers, each with one create_version call, for different
\* versions of one template, in any interleaving and also where base_path and
\* the template directory are missing at first: both calls return without an
\* error, and each version ends complete, with its own directory, the
\* metadata of its own call and the content its own call selected.
C32_DifferentVersionsBothSucceed ==
    \A p \in Procs : \A q \in Procs \ {p} :
        (/\ calls = 2
         /\ fr[p].pc = "done" /\ fr[q].pc = "done"
         /\ Creating(fr[p]) /\ Creating(fr[q])
         /\ fr[p].tid = fr[q].tid
         /\ CellOf(fr[p]) # CellOf(fr[q])
         /\ CellOf(fr[p]) \notin Populated /\ CellOf(fr[q]) \notin Populated)
        => \A w \in {p, q} :
            /\ fr[w].exc = ""
            /\ fr[w].wrote = {"dir", "metadata", "content"}
            /\ CellOf(fr[w]) \in completed
            /\ verEntry[CellOf(fr[w])] = "dir"
            /\ metaFile[CellOf(fr[w])] = ValidMeta(CellOf(fr[w]))
            /\ contFile[CellOf(fr[w])] = TextFile(WriteText(fr[w].template_content))
            /\ fr[w].strategy = WITH_CONTENT
                 => contFile[CellOf(fr[w])].text = WriteText(fr[w].content.val)
            /\ fr[w].strategy = EMPTY => contFile[CellOf(fr[w])].text = <<>>

\* Both calls looked for a previous version before the other had completed
\* its own, in a store whose base path did not exist.
C32_Witness ==
    \E p \in Procs : \E q \in Procs \ {p} :
        /\ calls = 2
        /\ fr[p].pc = "done" /\ fr[q].pc = "done"
        /\ fr[p].op = "create_version" /\ fr[q].op = "create_version"
        /\ fr[p].exc = "" /\ fr[q].exc = ""
        /\ CellOf(fr[p]) # CellOf(fr[q])
        /\ \A w \in {p, q} :
            /\ fr[w].strategy = FROM_PREVIOUS_VERSION
            /\ \E i \in 1..Len(fr[w].log) : fr[w].log[i] = "warning:no-previous"
        /\ completed = {CellOf(fr[p]), CellOf(fr[q])}

\* C33: a create_version with FROM_PREVIOUS_VERSION that runs while another
\* caller holds a different version of the template claimed and incomplete
\* does not fail because of it and never copies from it: the version its
\* lookup settles on as the latest is one whose creation had returned by
\* then, and the call ends with no error other than the one for its own
\* version existing.
C33_CopiesOnlyFromComplete ==
    [][\A p \in Procs :
          LET f == fr[p]
              g == fr'[p]
          IN  (Creating(g) /\ g.strategy = FROM_PREVIOUS_VERSION /\ g # f)
              => /\ (g.pc = "cv_read" /\ f.pc # "cv_read")
                      => <<g.tid, Str(g.latest)>> \in completed
                 /\ g.pc = "done"
                      => g.exc \in {"", "VersionAlreadyExistsError", "FileExistsError"}]_vars

\* The set of the TemplateVersions in a list.
VersionSet(l) == {l[i] : i \in 1..Len(l)}

\* The child c of a template directory is one list_template_versions
\* appends (lines 122, 127, 131-132), in the filesystem given.
ListedIn(bd, re, ve, mf, cf, c) ==
    /\ bd /\ re[c[1]] = "dir" /\ ve[c] = "dir"
    /\ GetTemplateVersionIn(mf, cf, c[1], AsStr(c[2])).exc = ""

\* C34: the latest version of a template never decreases. What
\* list_template_versions returns is the versions of the children it
\* appends, and get_template succeeds where there is one and returns the
\* greatest; no step of any operation takes such a child away or changes
\* the version read from it. So once a get_template call has returned v, a
\* get_template at any later moment succeeds with a version greater than or
\* equal to v, and a list_template_versions at any later moment returns at
\* least the versions an earlier call returned.
C34_LatestNeverDecreases ==
    /\ [][\A c \in Cells :
            ListedIn(baseDir, rootEntry, verEntry, metaFile, contFile, c)
                => /\ ListedIn(baseDir', rootEntry', verEntry', metaFile', contFile', c)
                   /\ GetTemplateVersionIn(metaFile', contFile', c[1], AsStr(c[2]))
                        = GetTemplateVersion(c[1], AsStr(c[2]))]_vars
    /\ [](\A t \in TemplateIds :
            LET l == ListTemplateVersions(t)
                g == GetTemplate(t)
                S == {GetTemplateVersion(c[1], AsStr(c[2])).tv :
                        c \in {x \in Cells : /\ x[1] = t
                                             /\ ListedIn(baseDir, rootEntry, verEntry,
                                                         metaFile, contFile, x)}}
            IN  /\ l.exc = "" => VersionSet(l.versions) = S
                /\ l.exc # "" => S = {}
                /\ g.exc = "" <=> S # {}
                /\ g.exc = "" => \A tv \in S :
                                    Compare(g.templates[1].latest_version, tv.version) >= 0)
    /\ [](\A p \in Procs :
            LET f == fr[p]
            IN  /\ (f.pc = "done" /\ f.op = "get_template" /\ f.exc = "")
                     => /\ GetTemplate(f.tid).exc = ""
                        /\ Compare(GetTemplate(f.tid).templates[1].latest_version,
                                   f.templates[1].latest_version) >= 0
                /\ (f.pc = "done" /\ f.op = "list_template_versions" /\ f.exc = "")
                     => /\ ListTemplateVersions(f.tid).exc = ""
                        /\ VersionSet(f.versions)
                             \subseteq VersionSet(ListTemplateVersions(f.tid).versions))

\* A get_template returned 10.0.0 and a creation of another caller has
\* since added a version to the template.
C34_Witness ==
    \E p \in Procs : \E q \in Procs \ {p} :
        /\ fr[p].pc = "done" /\ fr[p].op = "get_template" /\ fr[p].exc = ""
        /\ fr[p].templates[1].latest_version = V10
        /\ fr[q].pc = "done" /\ fr[q].op = "create_version" /\ fr[q].exc = ""
        /\ Cardinality(VersionSet(ListTemplateVersions(fr[p].tid).versions)) = 3

\* C35: every TemplateVersion that get_template_version,
\* list_template_versions or get_latest_version returns is consistent: its
\* template_id is the one asked for, its version is the one asked for or
\* the name of a scanned directory, and the template_id and version of its
\* metadata are its own.
C35_ReturnedVersionsConsistent ==
    \A p \in Procs :
        LET f == fr[p]
        IN  (/\ f.pc = "done" /\ f.exc = ""
             /\ f.op \in {"get_template_version", "list_template_versions",
                          "get_latest_version"})
            => \A tv \in VersionSet(f.versions) :
                /\ tv.template_id = f.tid
                /\ f.op = "get_template_version" => Str(tv.version) = StrOf(f.ver)
                /\ f.op # "get_template_version"
                     => verEntry[<<f.tid, Str(tv.version)>>] = "dir"
                /\ tv.metadata.template_id = tv.template_id
                /\ tv.metadata.version = tv.version

\* The strategy flags given on the command line.
FlagsGiven(c) ==
    {x \in {"from_previous", "empty", "with_content"} : c[x]}

Shows(c, m) == \E i \in 1..Len(c.output) : c.output[i] = m

CreateCalls(c) == {i \in 1..Len(c.store_calls) : c.store_calls[i].method = "create_version"}

\* C36: 'versions create' with a version given and more than one of
\* --from-previous, --empty and --with-content exits with a status other
\* than 0 and the 'mutually exclusive' message, and calls neither
\* create_version nor any other method of the store.
C36_ExclusiveFlags ==
    (cli.cmd = "versions create" /\ Truthy(cli.version) /\ Cardinality(FlagsGiven(cli)) > 1)
        => /\ cli.pc = "exited"
           /\ cli.exit_code \notin {0, -1}
           /\ Shows(cli, "error:mutually-exclusive")
           /\ ~Shows(cli, "success")
           /\ cli.store_calls = <<>>
           /\ fr[CliProc] = IdleFrame

\* --empty and --with-content with a content, on a version that does not
\* exist yet.
C36_Witness ==
    /\ cli.cmd = "versions create" /\ cli.pc = "exited" /\ cli.exit_code = 2
    /\ cli.version = Some(Str(V1))
    /\ ~cli.from_previous /\ cli.empty /\ cli.with_content
    /\ cli.content = Some(CX)
    /\ verEntry[<<TA, Str(V1)>>] = "absent"

\* C37: 'versions create' with at most one strategy flag calls
\* create_version exactly once: with FROM_PREVIOUS_VERSION for
\* --from-previous or no flag, EMPTY for --empty, WITH_CONTENT for
\* --with-content; with the --content value, or the text typed at the prompt
\* for WITH_CONTENT without a --content value; with the --version value, or
\* without one the text typed at the prompt that follows get_template.
C37_CreateCalledOnce ==
    (cli.cmd = "versions create" /\ cli.pc = "exited" /\ Cardinality(FlagsGiven(cli)) <= 1)
        => /\ Cardinality(CreateCalls(cli)) = 1
           /\ \A i \in CreateCalls(cli) :
                LET call == cli.store_calls[i]
                IN  /\ call.template_id = cli.template_id
                    /\ call.strategy = (IF cli.empty THEN EMPTY
                                        ELSE IF cli.with_content THEN WITH_CONTENT
                                        ELSE FROM_PREVIOUS_VERSION)
                    /\ call.content = (IF cli.with_content /\ cli.content.none
                                       THEN Some(cli.stdin.content) ELSE cli.content)
                    /\ Truthy(cli.version)
                         => i = 1 /\ call.version = cli.version.val
                    /\ ~Truthy(cli.version)
                         => /\ i = 2 /\ cli.store_calls[1].method = "get_template"
                            /\ call.version = cli.stdin.version

\* C38: where the store raises a FileExistsError, 'versions create' and
\* 'templates create' print the 'already exists' message and no success
\* message and exit with status 0; the success message is printed only
\* after the store's call has returned without an error.
C38_AlreadyExistsIsReported ==
    /\ (cli.pc = "exited" /\ cli.store_calls # <<>>
        /\ cli.store_calls[Len(cli.store_calls)].method \in {"create_version", "create_template"}
        /\ fr[CliProc].exc \in {"FileExistsError", "VersionAlreadyExistsError"})
            => /\ Shows(cli, "already-exists")
               /\ ~Shows(cli, "success")
               /\ cli.exit_code = 0
    /\ Shows(cli, "success")
            => /\ cli.pc = "exited" /\ cli.exit_code = 0
               /\ fr[CliProc].pc = "done" /\ fr[CliProc].exc = ""
               /\ Creating(fr[CliProc])
               /\ CellOf(fr[CliProc]) \in completed
               /\ ~Shows(cli, "already-exists")

\* The second command asks for the version the first command created.
C38_Witness ==
    /\ cli.cmd = "versions create" /\ cli.pc = "exited" /\ cli.exit_code = 0
    /\ cli.commands = 2
    /\ fr[CliProc].exc = "VersionAlreadyExistsError"
    /\ CellOf(fr[CliProc]) \in completed \ Populated
    /\ Shows(cli, "already-exists")
====
